---- MODULE Spec2Model ----
(***************************************************************************)
(* The image processing pipeline of ensconced/effect-demo:                 *)
(*   ImageService.processImage   (services/image-service.ts)               *)
(*   ImageProcessor              (src/processing/image-processor.ts)       *)
(*   FileStorage, S3Storage, CDNPublisher, MetadataStorage (storage/*.ts)  *)
(*                                                                         *)
(* One processImage run is a process whose position is pc; every await of  *)
(* the method is a step.  The file system, the network and Math.random()   *)
(* are the environment: a call that the code guards with try/catch may     *)
(* fail.  fs.writeFile is taken to be atomic (it creates the whole file or *)
(* throws and leaves nothing).                                             *)
(*                                                                         *)
(* An error value is a sequence of error objects, outermost first: the     *)
(* head is the error itself, the tail is its chain of causes.              *)
(***************************************************************************)
EXTENDS Integers, Sequences, FiniteSets, TLC

VARIABLES
    cfg,               \* ProcessingConfig: the set of injection flags that are set
    pc,                \* position of the processImage run
    idx,               \* index of the variant the current per-variant loop is at
    tasks,             \* the resizeSingle promise of each size: pending, fulfilled or rejected
    tempDisk,          \* temp files <imageId>-<size>.jpg that exist in tempDir
    unlinkFailed,      \* temp files whose fs.unlink has thrown (environment record)
    variants,          \* size classes of the variants record (<<>> until resize returns)
    s3Url,             \* sizes whose variant.s3Url is set
    cdnUrl,            \* sizes whose variant.cdnUrl is set
    optFailed,         \* sizes whose optimize call threw (only logged by the code)
    tempFilesCreated,  \* processImage local: sizes of the temp file paths collected
    fileStorageSaved,  \* processImage local flag
    s3Uploaded,        \* processImage local flag
    cdnPublished,      \* processImage local flag
    metadataSaved,     \* processImage local flag
    fileStore,         \* TRUE iff <imageId>-original.jpg exists under FileStorage.basePath
    s3Store,           \* sizes whose images/<imageId>/<size>.jpg exists under S3Storage.basePath
    cdnStore,          \* sizes whose images/<imageId>/<size>.jpg is published and not invalidated
    metaCache,         \* TRUE iff MetadataStorage.cache has imageId
    metaDisk,          \* TRUE iff the persisted metadata.json has imageId
    error,             \* the error caught by the catch block of processImage
    failedStep,        \* the forward step that threw ("" while none has)
    failedIdx,         \* the variant index that step was at when it threw
    rollbackErrors,    \* processImage local: errors collected by the rollback blocks
    rbLog,             \* the rollback blocks entered, in order
    compCalls,         \* the delete / invalidate calls issued by rollback, in order
    thrown,            \* the error processImage rejected with (<<>> while none)
    returned,          \* TRUE iff processImage resolved with the metadata record
    fwdCalls,          \* the calls the forward steps have awaited (returned or thrown), in order
    metadata,          \* processImage local: <<the ImageMetadata record>> once it is built
    cacheRecord,       \* <<the value MetadataStorage.cache holds for imageId>>
    retry,             \* one call of a retrying function, taken by itself: its input and result
    delRun,            \* the deleteImage(imageId) call made after the run: its calls, errors, result
    delTwice,          \* a delete call made twice on one key after the run, and what the two did
    conc,              \* concurrent processImage runs on the shared backends (see ConcInit)
    scale,             \* one call of calculateScaledDimensions: its arguments and result
    afterDelete,       \* the getImage and the second deleteImage made after deleteImage(imageId)
    breaker,           \* a CircuitBreaker, the clock and the execute calls made on it (see BreakerInit)
    doc,               \* one DocumentService.updateDocument call and the stores of the document (see NoUpdate)
    cancelledAt        \* the await the run was at when its caller gave the request up ("" if it has not)

vars == <<cfg, pc, idx, tasks, tempDisk, unlinkFailed, variants, s3Url, cdnUrl,
          optFailed, tempFilesCreated, fileStorageSaved, s3Uploaded, cdnPublished,
          metadataSaved, fileStore, s3Store, cdnStore, metaCache, metaDisk, error,
          failedStep, failedIdx, rollbackErrors, rbLog, compCalls, thrown, returned,
          fwdCalls, metadata, cacheRecord, retry, delRun, delTwice,
          conc, scale, cancelledAt, afterDelete,
          breaker, doc>>

----------------------------------------------------------------------------
(* Bounds *)

\* At most this many injection flags are set in one request (?fail=a,b).
MaxFlags == 2

\* The number of processImage calls that run concurrently.
MaxRuns == 2

\* The number of callers that can be inside CircuitBreaker.execute at once.
MaxCallers == 2

\* The number of execute calls made on the circuit breaker in all.
MaxCalls == 7

\* The number of times the clock is advanced.
MaxTicks == 3

----------------------------------------------------------------------------
(* Types and constants of the program *)

\* sizes.map(...) of resizeToAllSizes: the four resized classes, in order.
ResizeSizes == <<"thumbnail", "small", "medium", "large">>

\* Object.entries(variants): insertion order, the four resized then original.
SizeOrder == <<"thumbnail", "small", "medium", "large", "original">>

Range(s) == {s[i] : i \in DOMAIN s}

ProcessingConfig ==
    {"shouldFailValidation", "shouldFailResize", "shouldFailResizePartial",
     "shouldFailOptimize", "shouldFailStorage", "shouldFailS3", "shouldFailCDN",
     "shouldFailMetadata", "failureRate"}

S3MaxRetries == 3
CDNMaxRetries == 5
FileMaxRetries == 3
S3RetryDelayMs == 100
CDNRetryDelayMs == 200
FileRetryDelayMs == 100

NoError == <<>>

\* The concurrent runs; run r has imageId r (randomUUID() gives each call an
\* id of its own).
Runs == 1..MaxRuns

\* The shared backends before any run has started, and every run at its
\* start: temp, s3 and cdn hold keys <<imageId, size>>, file, cache and disk
\* hold imageIds; disk is the content of metadata.json.
ConcInit ==
    [run   |-> [r \in Runs |->
                  [pc |-> "start", tempFilesCreated |-> FALSE,
                   fileStorageSaved |-> FALSE, s3Uploaded |-> FALSE,
                   cdnPublished |-> FALSE, metadataSaved |-> FALSE,
                   snapshot |-> {}]],
     temp  |-> {},
     file  |-> {},
     s3    |-> {},
     cdn   |-> {},
     cache |-> {},
     disk  |-> {}]

\* calculateScaledDimensions has not been called.
NoScale == [original |-> <<>>, target |-> <<>>, out |-> <<>>]

\* new CircuitBreaker(3, 30000) of ExternalApiService.
Threshold == 3
Timeout == 30000

Callers == 1..MaxCallers

\* The circuit breaker as constructed (failures = 0, lastFailureTime = 0,
\* state = 'CLOSED'), the clock Date.now() in ms, and for each caller where
\* its execute call is: pc is "idle" or "running" (operation() is awaited),
\* trial tells that the call was admitted with the breaker HALF_OPEN, last is
\* how the caller's previous call ended.  calls, invoked and ticks count the
\* execute calls made, the operations invoked and the clock advances.
BreakerInit ==
    [failures |-> 0, lastFailureTime |-> 0, state |-> "CLOSED", now |-> 0,
     call |-> [c \in Callers |-> [pc |-> "idle", trial |-> FALSE, last |-> ""]],
     calls |-> 0, invoked |-> 0, ticks |-> 0]

\* A stored document before updateDocument(id, input) is called: file is the
\* content file storage holds for id, cacheMeta and diskMeta are the versions
\* of the metadata in the cache and in the persisted file.  input.content
\* and input.title are "" when the input does not have the field.  The
\* other fields are the locals of updateDocument; writes are the saveFile
\* calls it has made.
NoUpdate ==
    [pc |-> "idle", input |-> [content |-> "", title |-> ""],
     file |-> "v0", before |-> "v0", cacheMeta |-> "m0", diskMeta |-> "m0",
     oldContent |-> "", contentUpdated |-> FALSE, metadataUpdated |-> FALSE,
     writes |-> <<>>, error |-> NoError, failedAt |-> "", rollbackOk |-> FALSE,
     thrown |-> NoError, returned |-> FALSE]

\* A request that has not been made.
NoRequest == [called |-> FALSE, calls |-> <<>>, thrown |-> NoError, status |-> 0]

\* Neither getImage nor a second deleteImage has followed the deleteImage.
NoAfterDelete == [get |-> NoRequest, second |-> NoRequest]

\* deleteImage has not been called.
NoDeleteImage ==
    [called |-> FALSE, calls |-> <<>>, errors |-> <<>>, thrown |-> NoError,
     report |-> <<>>]

\* No delete call has been made twice.
NoDeleteTwice ==
    [op |-> "", key |-> "", wasAbsent |-> FALSE, err1 |-> NoError,
     err2 |-> NoError, absent |-> FALSE, unchanged |-> FALSE]

\* No call of a retrying function has been made.
NoCall == [fn |-> "", cfg |-> {}, script |-> <<>>, out |-> <<>>]

\* One error object: its class, its message (without the ids and counts that
\* vary) and, for the aggregated resize error, the size classes it names.
Err(name, msg) == [name |-> name, msg |-> msg, sizes |-> {}]

\* new XError(message, ..., cause): the error followed by its chain of causes.
Wrap(e, cause) == <<e>> \o cause

----------------------------------------------------------------------------
(* The storage backends' write calls.                                      *)
(*                                                                         *)
(* script is what the environment does to the attempts of one call: a      *)
(* sequence, one entry per attempt, of "ok" (the attempt succeeds), "net"  *)
(* (it throws a NetworkError, retryable by default) or "fatal" (an fs call *)
(* of the attempt throws, which is no NetworkError).  A call returns       *)
(* [ok, attempts, delays, err]: delays are the sleeps it waited, err the   *)
(* error it threw.                                                         *)

\* The scripts that differ in what a retry loop can observe: n network
\* failures followed by a success or by a fatal error.
Scripts(maxRetries, maxNet, lasts) ==
    { [i \in 1..(maxRetries + 1) |-> IF i <= n THEN "net" ELSE last] :
        n \in 0..maxNet, last \in lasts }

CauseOf(outcome) ==
    IF outcome = "net"
    THEN <<Err("NetworkError", "Simulated network failure")>>
    ELSE <<Err("Error", "fs")>>

\* The power of two taken for a product.
Pow2AsProduct(n) == 2 * n

Pow2(n) == 2 ^ n

\* The retry loop of uploadFile retrying whatever the attempt throws.
RECURSIVE S3AttemptRetryAnyError(_, _, _)
S3AttemptRetryAnyError(script, attempt, delays) ==
    LET o == script[attempt + 1] IN
    IF o = "ok"
    THEN [ok |-> TRUE, attempts |-> attempt + 1, delays |-> delays, err |-> NoError]
    ELSE IF ~(attempt < S3MaxRetries)
    THEN [ok |-> FALSE, attempts |-> attempt + 1, delays |-> delays,
          err |-> Wrap(Err("StorageError", "Failed to upload to S3 after 4 attempts"),
                       CauseOf(o))]
    ELSE S3AttemptRetryAnyError(script, attempt + 1,
                                Append(delays, S3RetryDelayMs * Pow2(attempt)))

\* S3Storage.uploadFile, the retry loop: retries every NetworkError.
RECURSIVE S3Attempt(_, _, _)
S3Attempt(script, attempt, delays) ==
    LET o == script[attempt + 1] IN
    IF o = "ok"
    THEN [ok |-> TRUE, attempts |-> attempt + 1, delays |-> delays, err |-> NoError]
    ELSE IF o # "net" \/ ~(attempt < S3MaxRetries)
    THEN [ok |-> FALSE, attempts |-> attempt + 1, delays |-> delays,
          err |-> Wrap(Err("StorageError", "Failed to upload to S3 after 4 attempts"),
                       CauseOf(o))]
    ELSE S3Attempt(script, attempt + 1, Append(delays, S3RetryDelayMs * Pow2(attempt)))

\* S3Storage.uploadFile(filePath, key, config).
S3UploadFile(c, script) ==
    IF "shouldFailS3" \in c
    THEN [ok |-> FALSE, attempts |-> 0, delays |-> <<>>,
          err |-> <<Err("StorageError", "Simulated S3 upload failure")>>]
    ELSE S3Attempt(script, 0, <<>>)

\* Math.random() < (config?.failureRate || 0): a NetworkError needs failureRate.
S3Scripts(c) ==
    Scripts(S3MaxRetries, IF "failureRate" \in c THEN S3MaxRetries + 1 ELSE 0,
            {"ok", "fatal"})

\* CDNPublisher.publishFile, the retry loop: retries a retryable NetworkError.
RECURSIVE CDNAttempt(_, _, _)
CDNAttempt(script, attempt, delays) ==
    LET o == script[attempt + 1]
        isRetryable == (o = "net")
        hasRetriesLeft == attempt < CDNMaxRetries
    IN
    IF o = "ok"
    THEN [ok |-> TRUE, attempts |-> attempt + 1, delays |-> delays, err |-> NoError]
    ELSE IF ~isRetryable \/ ~hasRetriesLeft
    THEN [ok |-> FALSE, attempts |-> attempt + 1, delays |-> delays,
          err |-> Wrap(Err("NetworkError", "Failed to publish to CDN after 6 attempts"),
                       CauseOf(o))]
    ELSE CDNAttempt(script, attempt + 1, Append(delays, CDNRetryDelayMs * Pow2(attempt)))

\* CDNPublisher.publishFile(s3Url, key, config).
CDNPublishFile(c, script) ==
    IF "shouldFailCDN" \in c
    THEN [ok |-> FALSE, attempts |-> 0, delays |-> <<>>,
          err |-> <<Err("NetworkError", "Simulated CDN publish failure")>>]
    ELSE CDNAttempt(script, 0, <<>>)

\* Math.random() < (config?.failureRate || 0.2): a NetworkError is always
\* possible; the attempt body has no fs call, so it throws nothing else.
CDNScripts(c) == Scripts(CDNMaxRetries, CDNMaxRetries + 1, {"ok"})

\* FileStorage.saveFile, the retry loop.  new StorageError(message, lastError)
\* passes lastError as the location: the error thrown has no cause.
RECURSIVE FileAttempt(_, _, _)
FileAttempt(script, attempt, delays) ==
    LET o == script[attempt + 1]
        isRetryable == (o = "net")
        hasRetriesLeft == attempt < FileMaxRetries
    IN
    IF o = "ok"
    THEN [ok |-> TRUE, attempts |-> attempt + 1, delays |-> delays, err |-> NoError]
    ELSE IF ~isRetryable \/ ~hasRetriesLeft
    THEN [ok |-> FALSE, attempts |-> attempt + 1, delays |-> delays,
          err |-> <<Err("StorageError", "Failed to save file after 4 attempts")>>]
    ELSE FileAttempt(script, attempt + 1, Append(delays, FileRetryDelayMs * Pow2(attempt)))

\* FileStorage.saveFile(id, content, config).
FileSaveFile(c, script) ==
    IF "shouldFailStorage" \in c
    THEN [ok |-> FALSE, attempts |-> 0, delays |-> <<>>,
          err |-> <<Err("StorageError", "Simulated storage failure")>>]
    ELSE FileAttempt(script, 0, <<>>)

\* Math.random() < (config?.failureRate || 0.1) && attempt < 2: a NetworkError
\* is thrown by the first two attempts at most.
FileScripts(c) == Scripts(FileMaxRetries, 2, {"ok", "fatal"})


\* withRetry(operation, maxAttempts = 3, baseDelay = 1000) of the manual
\* example: attempts are counted from 1 and every error is retried.
WithRetryMaxAttempts == 3
WithRetryBaseDelay == 1000

RECURSIVE WithRetryAttempt(_, _, _)
WithRetryAttempt(script, attempt, delays) ==
    LET o == script[attempt] IN
    IF o = "ok"
    THEN [ok |-> TRUE, attempts |-> attempt, delays |-> delays, err |-> NoError]
    ELSE IF attempt = WithRetryMaxAttempts
    THEN [ok |-> FALSE, attempts |-> attempt, delays |-> delays, err |-> CauseOf(o)]
    ELSE WithRetryAttempt(script, attempt + 1,
                          Append(delays, WithRetryBaseDelay * Pow2(attempt - 1)))

WithRetry(script) == WithRetryAttempt(script, 1, <<>>)

\* What one attempt can do.
Outcomes == {"ok", "net", "fatal"}

\* Every script the environment can play against one call of a retrying
\* function, one outcome per attempt the loop can make: uploadFile throws a
\* NetworkError only with a failureRate; saveFile throws one in its first
\* two attempts only; the attempt of publishFile has no fs call; the
\* operation given to withRetry is arbitrary.
RetryScripts(fn, c) ==
    CASE fn = "s3" ->
           {s \in [1..(S3MaxRetries + 1) -> Outcomes] :
              "failureRate" \notin c => \A i \in DOMAIN s : s[i] # "net"}
      [] fn = "cdn" -> [1..(CDNMaxRetries + 1) -> {"ok", "net"}]
      [] fn = "file" ->
           {s \in [1..(FileMaxRetries + 1) -> Outcomes] :
              \A i \in DOMAIN s : s[i] = "net" => i <= 2}
      [] fn = "withRetry" -> [1..WithRetryMaxAttempts -> Outcomes]

----------------------------------------------------------------------------
(* ImageProcessor *)

\* A settled or pending resizeSingle promise.
Pending == [status |-> "pending", err |-> NoError]
Fulfilled == [status |-> "fulfilled", err |-> NoError]
Rejected(e) == [status |-> "rejected", err |-> <<e>>]

\* The ways one resizeSingle(file, size, ...) call can settle: fulfilled (the
\* temp file is written and the variant returned) or rejected with an error
\* (no throw site of resizeSingle follows the write of the temp file).
ResizeSingleOutcomes(c, size) ==
    IF "shouldFailResize" \in c
    THEN {Rejected(Err("ProcessingError", "Simulated resize failure"))}
    ELSE IF "shouldFailResizePartial" \in c /\ size \in {"small", "large"}
    THEN {Rejected(Err("ProcessingError", "Simulated partial resize failure"))}
    ELSE {Fulfilled, Rejected(Err("Error", "fs"))}
         \cup (IF "failureRate" \in c
               THEN {Rejected(Err("ProcessingError", "Random failure during resize"))}
               ELSE {})

\* The sizes, in the order of sizes[], whose result has the given status.
RECURSIVE SelectSizes(_, _, _)
SelectSizes(order, results, status) ==
    IF order = <<>> THEN <<>>
    ELSE LET rest == SelectSizes(Tail(order), results, status) IN
         IF results[Head(order)].status = status
         THEN <<Head(order)>> \o rest
         ELSE rest

\* The variants record returned without the original added to it.
BuildVariantsWithoutOriginal(results) ==
    SelectSizes(ResizeSizes, results, "fulfilled")

\* resizeToAllSizes when every task has succeeded: the variants record built
\* from the succeeded results, then the original added to it.
BuildVariants(results) ==
    SelectSizes(ResizeSizes, results, "fulfilled") \o <<"original">>

\* cleanupFiles leaving its loop at the first unlink that throws.
CleanupFilesAbortOnError(filePaths, disk, failing) ==
    LET errors == (filePaths \cap failing) \cup (filePaths \ disk) IN
    [disk   |-> IF errors = {} THEN disk \ filePaths ELSE disk,
     failed |-> errors,
     err    |-> IF errors # {}
                THEN Wrap(Err("ResourceError", "Failed to cleanup temp files"),
                          <<Err("Error", "fs")>>)
                ELSE NoError]

\* ImageProcessor.cleanupFiles(filePaths) on the temp directory disk, when
\* the environment makes fs.unlink throw for the files in failing: every path
\* is tried; an unlink of a file that does not exist throws too (ENOENT).
CleanupFiles(filePaths, disk, failing) ==
    LET errors == (filePaths \cap failing) \cup (filePaths \ disk) IN
    [disk   |-> disk \ (filePaths \ failing),
     failed |-> errors,
     err    |-> IF errors # {}
                THEN Wrap(Err("ResourceError", "Failed to cleanup temp files"),
                          <<Err("Error", "fs")>>)
                ELSE NoError]

\* resizeToAllSizes after Promise.allSettled, when some task has failed: the
\* successful outputs are cleaned up, then the aggregated error is thrown --
\* unless cleanupFiles throws first.
ResizeFailure(results, disk, failing) ==
    LET succeeded == SelectSizes(ResizeSizes, results, "fulfilled")
        failed    == SelectSizes(ResizeSizes, results, "rejected")
        cleanup   == CleanupFiles(Range(succeeded), disk, failing)
    IN
    [disk   |-> cleanup.disk,
     failed |-> cleanup.failed,
     err    |-> IF cleanup.err # NoError
                THEN cleanup.err
                ELSE Wrap([name  |-> "ProcessingError",
                           msg   |-> "Failed to resize sizes",
                           sizes |-> Range(failed)],
                          results[failed[1]].err)]

\* SIZE_CONFIGS of types.ts: the target box of each size class.
SIZE_CONFIGS ==
    [thumbnail |-> [width |-> 150, height |-> 150],
     small     |-> [width |-> 480, height |-> 480],
     medium    |-> [width |-> 1024, height |-> 1024],
     large     |-> [width |-> 2048, height |-> 2048],
     original  |-> [width |-> 4096, height |-> 4096]]

Min(a, b) == IF a <= b THEN a ELSE b

\* Math.round(num / den) for positive integers: the nearest integer, a half
\* rounded up.
RoundDiv(num, den) == (2 * num + den) \div (2 * den)

\* calculateScaledDimensions fitting to the box without the Math.min.
CalculateScaledDimensionsUnclamped(original, target) ==
    IF original.width * target.height > target.width * original.height
    THEN [width  |-> target.width,
          height |-> RoundDiv(target.width * original.height, original.width)]
    ELSE [width  |-> RoundDiv(target.height * original.width, original.height),
          height |-> target.height]

\* ImageProcessor.calculateScaledDimensions(original, target):
\* aspectRatio > targetAspectRatio is ow / oh > tw / th, and width /
\* aspectRatio is width * oh / ow.
CalculateScaledDimensions(original, target) ==
    IF original.width * target.height > target.width * original.height
    THEN LET width == Min(original.width, target.width) IN
         [width  |-> width,
          height |-> RoundDiv(width * original.height, original.width)]
    ELSE LET height == Min(original.height, target.height) IN
         [width  |-> RoundDiv(height * original.width, original.height),
          height |-> height]

----------------------------------------------------------------------------
(* MetadataStorage *)

\* MetadataStorage.save(metadata, config) on [cache, disk], when the
\* environment makes the fs.writeFile of persist() fail or not.
MetadataSave(c, cache, disk, persistFails) ==
    IF "shouldFailMetadata" \in c
    THEN [cache |-> cache, disk |-> disk,
          err |-> <<Err("DatabaseError", "Simulated metadata save failure")>>]
    ELSE IF persistFails
    THEN [cache |-> TRUE, disk |-> disk,
          err |-> Wrap(Err("DatabaseError", "Failed to save metadata for image"),
                       Wrap(Err("DatabaseError", "Failed to persist metadata to disk"),
                            <<Err("Error", "fs")>>))]
    ELSE [cache |-> TRUE, disk |-> TRUE, err |-> NoError]

\* save without its cache.set.
CacheSetMissing(c, held, record) == held

\* this.cache.set(metadata.id, metadata) of save: the cache holds the object
\* it is given, unless the injected failure is thrown before.
CacheSet(c, held, record) ==
    IF "shouldFailMetadata" \in c THEN held ELSE record

\* this.cache.get(id) of get: the object the cache holds.
CacheGet(cache, held) == IF cache THEN held ELSE <<>>

\* MetadataStorage.delete removing the cache entry only once persist() has
\* succeeded.
MetadataDeletePersistFirst(cache, disk, persistFails) ==
    IF ~cache
    THEN [cache |-> cache, disk |-> disk,
          err |-> <<Err("DatabaseError", "Image not found")>>]
    ELSE IF persistFails
    THEN [cache |-> cache, disk |-> disk,
          err |-> Wrap(Err("DatabaseError", "Failed to delete metadata for image"),
                       Wrap(Err("DatabaseError", "Failed to persist metadata to disk"),
                            <<Err("Error", "fs")>>))]
    ELSE [cache |-> FALSE, disk |-> FALSE, err |-> NoError]

\* MetadataStorage.delete(id) on [cache, disk], when the environment makes the
\* fs.writeFile of persist() fail or not: cache.delete comes first.
MetadataDelete(cache, disk, persistFails) ==
    IF ~cache
    THEN [cache |-> cache, disk |-> disk,
          err |-> <<Err("DatabaseError", "Image not found")>>]
    ELSE IF persistFails
    THEN [cache |-> FALSE, disk |-> disk,
          err |-> Wrap(Err("DatabaseError", "Failed to delete metadata for image"),
                       Wrap(Err("DatabaseError", "Failed to persist metadata to disk"),
                            <<Err("Error", "fs")>>))]
    ELSE [cache |-> FALSE, disk |-> FALSE, err |-> NoError]

\* MetadataStorage.get(id): TRUE iff it returns a record (it throws
\* DatabaseError 'Image not found' otherwise).
MetadataGet(cache) == cache

----------------------------------------------------------------------------
(* The backends' delete calls *)

\* FileStorage.deleteFile(id): fs.unlink; ENOENT is ignored, any other error
\* is rethrown as a StorageError.
FileDeleteFile(store, unlinkFails) ==
    IF store /\ unlinkFails
    THEN [store |-> store, err |-> <<Err("StorageError", "Failed to delete file")>>]
    ELSE [store |-> FALSE, err |-> NoError]

\* S3Storage.deleteFile rethrowing ENOENT like any other error.
S3DeleteFileStrict(store, key, unlinkFails) ==
    IF key \notin store \/ unlinkFails
    THEN [store |-> store,
          err |-> Wrap(Err("StorageError", "Failed to delete from S3"),
                       <<Err("Error", "fs")>>)]
    ELSE [store |-> store \ {key}, err |-> NoError]

\* S3Storage.deleteFile(key): the same, on one key of the S3 directory.
S3DeleteFile(store, key, unlinkFails) ==
    IF key \in store /\ unlinkFails
    THEN [store |-> store,
          err |-> Wrap(Err("StorageError", "Failed to delete from S3"),
                       <<Err("Error", "fs")>>)]
    ELSE [store |-> store \ {key}, err |-> NoError]

\* CDNPublisher.invalidate(key): sleeps and logs; it cannot throw.
CDNInvalidate(store, key) == [store |-> store \ {key}, err |-> NoError]


----------------------------------------------------------------------------
(* ImageService.processImage *)

\* The identifiers of processImage that are bound inside its catch block: the
\* parameters and the let/const declarations that precede the try statement.
\* variants and dimensions are const declarations of the try block itself, so
\* they are not bound in the catch block, where evaluating Object.keys(variants)
\* throws a ReferenceError; s3Uploads and metadata are block-scoped likewise.
CatchScope ==
    {"input", "config", "validatedInput", "imageId", "tempFilesCreated",
     "fileStorageSaved", "s3Uploaded", "cdnPublished", "metadataSaved", "error"}

ReferenceError == <<Err("ReferenceError", "variants is not defined")>>

Call(op, key) == [op |-> op, key |-> key]

\* for (const size of keys) await this.cdnPublisher.invalidate(...)
RECURSIVE InvalidateLoop(_, _)
InvalidateLoop(keys, store) ==
    IF keys = <<>> THEN [store |-> store, calls |-> <<>>, err |-> NoError]
    ELSE LET rest == InvalidateLoop(Tail(keys), CDNInvalidate(store, Head(keys)).store) IN
         [rest EXCEPT !.calls = <<Call("cdn.invalidate", Head(keys))>> \o @]

\* for (const size of keys) await this.s3Storage.deleteFile(...): the first
\* call that throws leaves the loop.
RECURSIVE S3DeleteLoop(_, _, _)
S3DeleteLoop(keys, store, failing) ==
    IF keys = <<>> THEN [store |-> store, calls |-> <<>>, err |-> NoError]
    ELSE LET r == S3DeleteFile(store, Head(keys), Head(keys) \in failing) IN
         IF r.err # NoError
         THEN [store |-> r.store, calls |-> <<Call("s3.deleteFile", Head(keys))>>,
               err |-> r.err]
         ELSE LET rest == S3DeleteLoop(Tail(keys), r.store, failing) IN
              [rest EXCEPT !.calls = <<Call("s3.deleteFile", Head(keys))>> \o @]

\* const metadata: ImageMetadata = {..., sizes: variants, ...}: the variants
\* record with the s3Url and cdnUrl fields its variants have at that point.
MetadataRecord(vs, s3, cdn) == [sizes |-> vs, s3Url |-> s3, cdnUrl |-> cdn]

\* A forward step throws e: control passes to the catch block.
Throw(step, i, e) ==
    /\ error' = e
    /\ failedStep' = step
    /\ failedIdx' = i
    /\ pc' = "rb_cdn"

\* validateUploadInput called inside the try statement, after the dimensions
\* have been extracted.
ValidateAfterExtract ==
    /\ pc = "validate"
    /\ \E inputValid \in BOOLEAN :
         IF "shouldFailValidation" \in cfg \/ ~inputValid
         THEN /\ thrown' = <<Err("ValidationError", "validation")>>
              /\ failedStep' = "validate"
              /\ fwdCalls' = Append(fwdCalls, Call("processor.extractDimensions", ""))
              /\ pc' = "failed"
         ELSE /\ pc' = "extract"
              /\ UNCHANGED <<thrown, failedStep, fwdCalls>>
    /\ UNCHANGED <<cfg, idx, tasks, tempDisk, unlinkFailed, variants,
                   s3Url, cdnUrl, optFailed, tempFilesCreated, fileStorageSaved,
                   s3Uploaded, cdnPublished, metadataSaved, fileStore, s3Store,
                   cdnStore, metaCache, metaDisk, error, failedIdx, rollbackErrors,
                   rbLog, compCalls, returned, metadata, cacheRecord, retry, delRun,
                   delTwice, conc, scale, cancelledAt, afterDelete, breaker, doc>>

\* Step 1, before the try statement: validateUploadInput(input, config).
Validate ==
    /\ pc = "validate"
    /\ \E inputValid \in BOOLEAN :
         IF "shouldFailValidation" \in cfg \/ ~inputValid
         THEN /\ thrown' = <<Err("ValidationError", "validation")>>
              /\ failedStep' = "validate"
              /\ pc' = "failed"
         ELSE /\ pc' = "extract"
              /\ UNCHANGED <<thrown, failedStep>>
    /\ UNCHANGED <<cfg, idx, tasks, tempDisk, unlinkFailed, variants,
                   s3Url, cdnUrl, optFailed, tempFilesCreated, fileStorageSaved,
                   s3Uploaded, cdnPublished, metadataSaved, fileStore, s3Store,
                   cdnStore, metaCache, metaDisk, error, failedIdx, rollbackErrors,
                   rbLog, compCalls, returned, fwdCalls, metadata, cacheRecord,
                   retry, delRun, delTwice, conc, scale, cancelledAt, afterDelete,
                   breaker, doc>>

\* Step 2: extractDimensions draws 1920..2919 x 1080..2079, which
\* validateImageDimensions (100..8000) always accepts.
ExtractDimensions ==
    /\ pc = "extract"
    /\ pc' = "resize"
    /\ fwdCalls' = Append(fwdCalls, Call("processor.extractDimensions", ""))
    /\ UNCHANGED <<cfg, idx, tasks, tempDisk, unlinkFailed, variants,
                   s3Url, cdnUrl, optFailed, tempFilesCreated, fileStorageSaved,
                   s3Uploaded, cdnPublished, metadataSaved, fileStore, s3Store,
                   cdnStore, metaCache, metaDisk, error, failedStep, failedIdx,
                   rollbackErrors, rbLog, compCalls, thrown, returned, metadata,
                   cacheRecord, retry, delRun, delTwice, conc, scale, cancelledAt,
                   afterDelete, breaker, doc>>

\* Step 3, one of the four parallel resizeSingle calls settles.
ResizeSingle(size) ==
    /\ pc = "resize"
    /\ tasks[size] = Pending
    /\ \E r \in ResizeSingleOutcomes(cfg, size) :
         /\ tasks' = [tasks EXCEPT ![size] = r]
         /\ tempDisk' = IF r = Fulfilled THEN tempDisk \cup {size} ELSE tempDisk
    /\ UNCHANGED <<cfg, pc, idx, unlinkFailed, variants, s3Url, cdnUrl,
                   optFailed, tempFilesCreated, fileStorageSaved, s3Uploaded,
                   cdnPublished, metadataSaved, fileStore, s3Store, cdnStore,
                   metaCache, metaDisk, error, failedStep, failedIdx,
                   rollbackErrors, rbLog, compCalls, thrown, returned, fwdCalls,
                   metadata, cacheRecord, retry, delRun, delTwice, conc, scale,
                   cancelledAt, afterDelete, breaker, doc>>

\* Step 3 deciding as soon as one task has failed, like Promise.all.
ResizeAggregateFailFast ==
    /\ pc = "resize"
    /\ \/ \A s \in Range(ResizeSizes) : tasks[s] # Pending
       \/ SelectSizes(ResizeSizes, tasks, "rejected") # <<>>
    /\ fwdCalls' = Append(fwdCalls, Call("processor.resizeToAllSizes", ""))
    /\ IF SelectSizes(ResizeSizes, tasks, "rejected") # <<>>
       THEN \E failing \in SUBSET tempDisk :
              LET r == ResizeFailure(tasks, tempDisk, failing) IN
              /\ tempDisk' = r.disk
              /\ unlinkFailed' = unlinkFailed \cup r.failed
              /\ Throw("resize", 0, r.err)
              /\ UNCHANGED <<variants, tempFilesCreated, idx>>
       ELSE \E writeFails \in BOOLEAN :
              IF writeFails
              THEN /\ Throw("resize", 0, <<Err("Error", "fs")>>)
                   /\ UNCHANGED <<tempDisk, unlinkFailed, variants, tempFilesCreated, idx>>
              ELSE /\ tempDisk' = tempDisk \cup {"original"}
                   /\ variants' = BuildVariants(tasks)
                   /\ tempFilesCreated' = Range(BuildVariants(tasks))
                   /\ pc' = "optimize"
                   /\ idx' = 1
                   /\ UNCHANGED <<unlinkFailed, error, failedStep, failedIdx>>
    /\ UNCHANGED <<cfg, tasks, s3Url, cdnUrl, optFailed,
                   fileStorageSaved, s3Uploaded, cdnPublished, metadataSaved,
                   fileStore, s3Store, cdnStore, metaCache, metaDisk,
                   rollbackErrors, rbLog, compCalls, thrown, returned, metadata,
                   cacheRecord, retry, delRun, delTwice, conc, scale, cancelledAt,
                   afterDelete, breaker, doc>>

\* Step 3, resizeToAllSizes after Promise.allSettled has resolved, and the
\* assignment of tempFilesCreated when it returns.
ResizeAggregate ==
    /\ pc = "resize"
    /\ \A s \in Range(ResizeSizes) : tasks[s] # Pending
    /\ fwdCalls' = Append(fwdCalls, Call("processor.resizeToAllSizes", ""))
    /\ IF SelectSizes(ResizeSizes, tasks, "rejected") # <<>>
       THEN \E failing \in SUBSET tempDisk :
              LET r == ResizeFailure(tasks, tempDisk, failing) IN
              /\ tempDisk' = r.disk
              /\ unlinkFailed' = unlinkFailed \cup r.failed
              /\ Throw("resize", 0, r.err)
              /\ UNCHANGED <<variants, tempFilesCreated, idx>>
       ELSE \E writeFails \in BOOLEAN :
              IF writeFails
              THEN /\ Throw("resize", 0, <<Err("Error", "fs")>>)
                   /\ UNCHANGED <<tempDisk, unlinkFailed, variants, tempFilesCreated, idx>>
              ELSE /\ tempDisk' = tempDisk \cup {"original"}
                   /\ variants' = BuildVariants(tasks)
                   /\ tempFilesCreated' = Range(BuildVariants(tasks))
                   /\ pc' = "optimize"
                   /\ idx' = 1
                   /\ UNCHANGED <<unlinkFailed, error, failedStep, failedIdx>>
    /\ UNCHANGED <<cfg, tasks, s3Url, cdnUrl, optFailed,
                   fileStorageSaved, s3Uploaded, cdnPublished, metadataSaved,
                   fileStore, s3Store, cdnStore, metaCache, metaDisk,
                   rollbackErrors, rbLog, compCalls, thrown, returned, metadata,
                   cacheRecord, retry, delRun, delTwice, conc, scale, cancelledAt,
                   afterDelete, breaker, doc>>

\* Step 4 with the error of optimize propagated to the catch block.
OptimizeOrThrow ==
    /\ pc = "optimize"
    /\ fwdCalls' = Append(fwdCalls, Call("processor.optimize", variants[idx]))
    /\ \E threw \in (IF "shouldFailOptimize" \in cfg THEN {TRUE} ELSE BOOLEAN) :
         IF threw
         THEN /\ optFailed' = optFailed \cup {variants[idx]}
              /\ Throw("optimize", idx, <<Err("ProcessingError", "Simulated optimization failure")>>)
              /\ UNCHANGED idx
         ELSE /\ IF idx < Len(variants)
                 THEN idx' = idx + 1 /\ pc' = pc
                 ELSE idx' = 0 /\ pc' = "file"
              /\ UNCHANGED <<optFailed, error, failedStep, failedIdx>>
    /\ UNCHANGED <<cfg, tasks, tempDisk, unlinkFailed, variants, s3Url,
                   cdnUrl, tempFilesCreated, fileStorageSaved, s3Uploaded,
                   cdnPublished, metadataSaved, fileStore, s3Store, cdnStore,
                   metaCache, metaDisk, rollbackErrors, rbLog, compCalls, thrown,
                   returned, metadata, cacheRecord, retry, delRun, delTwice, conc,
                   scale, cancelledAt, afterDelete, breaker, doc>>

\* Step 4: processor.optimize(variant.filePath, config) for the next variant;
\* whatever it throws is caught and logged.
Optimize ==
    /\ pc = "optimize"
    /\ \E threw \in (IF "shouldFailOptimize" \in cfg THEN {TRUE} ELSE BOOLEAN) :
         optFailed' = IF threw THEN optFailed \cup {variants[idx]} ELSE optFailed
    /\ fwdCalls' = Append(fwdCalls, Call("processor.optimize", variants[idx]))
    /\ IF idx < Len(variants)
       THEN idx' = idx + 1 /\ pc' = pc
       ELSE idx' = 0 /\ pc' = "file"
    /\ UNCHANGED <<cfg, tasks, tempDisk, unlinkFailed, variants, s3Url,
                   cdnUrl, tempFilesCreated, fileStorageSaved, s3Uploaded,
                   cdnPublished, metadataSaved, fileStore, s3Store, cdnStore,
                   metaCache, metaDisk, error, failedStep, failedIdx,
                   rollbackErrors, rbLog, compCalls, thrown, returned, metadata,
                   cacheRecord, retry, delRun, delTwice, conc, scale, cancelledAt,
                   afterDelete, breaker, doc>>

\* Step 5 with the error of saveFile caught and logged like that of optimize.
SaveToFileStorageSwallowError ==
    /\ pc = "file"
    /\ fwdCalls' = Append(fwdCalls, Call("fileStorage.saveFile", "original"))
    /\ \E script \in FileScripts(cfg) :
         LET r == FileSaveFile(cfg, script) IN
         /\ fileStore' = (fileStore \/ r.ok)
         /\ fileStorageSaved' = (fileStorageSaved \/ r.ok)
    /\ pc' = "s3"
    /\ idx' = 1
    /\ UNCHANGED <<cfg, tasks, tempDisk, unlinkFailed, variants, s3Url,
                   cdnUrl, optFailed, tempFilesCreated, s3Uploaded, cdnPublished,
                   metadataSaved, s3Store, cdnStore, metaCache, metaDisk, error,
                   failedStep, failedIdx, rollbackErrors, rbLog, compCalls, thrown,
                   returned, metadata, cacheRecord, retry, delRun, delTwice, conc,
                   scale, cancelledAt, afterDelete, breaker, doc>>

\* Step 5: fileStorage.saveFile(`${imageId}-original`, file, config).
SaveToFileStorage ==
    /\ pc = "file"
    /\ fwdCalls' = Append(fwdCalls, Call("fileStorage.saveFile", "original"))
    /\ \E script \in FileScripts(cfg) :
         LET r == FileSaveFile(cfg, script) IN
         IF r.ok
         THEN /\ fileStore' = TRUE
              /\ fileStorageSaved' = TRUE
              /\ pc' = "s3"
              /\ idx' = 1
              /\ UNCHANGED <<error, failedStep, failedIdx>>
         ELSE /\ Throw("file", 1,
                       Wrap(Err("StorageError", "Failed to save to file storage"), r.err))
              /\ UNCHANGED <<fileStore, fileStorageSaved, idx>>
    /\ UNCHANGED <<cfg, tasks, tempDisk, unlinkFailed, variants, s3Url,
                   cdnUrl, optFailed, tempFilesCreated, s3Uploaded, cdnPublished,
                   metadataSaved, s3Store, cdnStore, metaCache, metaDisk,
                   rollbackErrors, rbLog, compCalls, thrown, returned, metadata,
                   cacheRecord, retry, delRun, delTwice, conc, scale, cancelledAt,
                   afterDelete, breaker, doc>>

\* Step 6 with s3Uploaded set by the first upload that succeeds.
UploadToS3FlagPerUpload ==
    /\ pc = "s3"
    /\ fwdCalls' = Append(fwdCalls, Call("s3Storage.uploadFile", variants[idx]))
    /\ \E script \in S3Scripts(cfg) :
         LET r == S3UploadFile(cfg, script)
             size == variants[idx]
         IN
         IF r.ok
         THEN /\ s3Store' = s3Store \cup {size}
              /\ s3Url' = s3Url \cup {size}
              /\ s3Uploaded' = TRUE
              /\ IF idx < Len(variants)
                 THEN idx' = idx + 1 /\ pc' = pc
                 ELSE idx' = 1 /\ pc' = "cdn"
              /\ UNCHANGED <<error, failedStep, failedIdx>>
         ELSE /\ Throw("s3", idx, Wrap(Err("StorageError", "Failed to upload to S3"), r.err))
              /\ UNCHANGED <<s3Store, s3Url, s3Uploaded, idx>>
    /\ UNCHANGED <<cfg, tasks, tempDisk, unlinkFailed, variants, cdnUrl,
                   optFailed, tempFilesCreated, fileStorageSaved, cdnPublished,
                   metadataSaved, fileStore, cdnStore, metaCache, metaDisk,
                   rollbackErrors, rbLog, compCalls, thrown, returned, metadata,
                   cacheRecord, retry, delRun, delTwice, conc, scale, cancelledAt,
                   afterDelete, breaker, doc>>

\* Step 6: s3Storage.uploadFile for the next variant; s3Uploaded is set when
\* the loop has run through.
UploadToS3 ==
    /\ pc = "s3"
    /\ fwdCalls' = Append(fwdCalls, Call("s3Storage.uploadFile", variants[idx]))
    /\ \E script \in S3Scripts(cfg) :
         LET r == S3UploadFile(cfg, script)
             size == variants[idx]
         IN
         IF r.ok
         THEN /\ s3Store' = s3Store \cup {size}
              /\ s3Url' = s3Url \cup {size}
              /\ IF idx < Len(variants)
                 THEN idx' = idx + 1 /\ pc' = pc /\ s3Uploaded' = s3Uploaded
                 ELSE idx' = 1 /\ pc' = "cdn" /\ s3Uploaded' = TRUE
              /\ UNCHANGED <<error, failedStep, failedIdx>>
         ELSE /\ Throw("s3", idx, Wrap(Err("StorageError", "Failed to upload to S3"), r.err))
              /\ UNCHANGED <<s3Store, s3Url, s3Uploaded, idx>>
    /\ UNCHANGED <<cfg, tasks, tempDisk, unlinkFailed, variants, cdnUrl,
                   optFailed, tempFilesCreated, fileStorageSaved, cdnPublished,
                   metadataSaved, fileStore, cdnStore, metaCache, metaDisk,
                   rollbackErrors, rbLog, compCalls, thrown, returned, metadata,
                   cacheRecord, retry, delRun, delTwice, conc, scale, cancelledAt,
                   afterDelete, breaker, doc>>

\* Step 7 issued inside the loop of step 6, before the upload of the variant.
PublishToCDNBeforeUpload ==
    /\ pc = "s3"
    /\ variants[idx] \notin cdnUrl
    /\ fwdCalls' = Append(fwdCalls, Call("cdnPublisher.publishFile", variants[idx]))
    /\ cdnStore' = cdnStore \cup {variants[idx]}
    /\ cdnUrl' = cdnUrl \cup {variants[idx]}
    /\ UNCHANGED <<cfg, pc, idx, tasks, tempDisk, unlinkFailed,
                   variants, s3Url, optFailed, tempFilesCreated, fileStorageSaved,
                   s3Uploaded, cdnPublished, metadataSaved, fileStore, s3Store,
                   metaCache, metaDisk, error, failedStep, failedIdx,
                   rollbackErrors, rbLog, compCalls, thrown, returned, metadata,
                   cacheRecord, retry, delRun, delTwice, conc, scale, cancelledAt,
                   afterDelete, breaker, doc>>

\* Step 7: cdnPublisher.publishFile for the next variant (skipped when the
\* variant has no s3Url); cdnPublished is set when the loop has run through.
PublishToCDN ==
    /\ pc = "cdn"
    /\ fwdCalls' = IF variants[idx] \notin s3Url THEN fwdCalls
                   ELSE Append(fwdCalls, Call("cdnPublisher.publishFile", variants[idx]))
    /\ \E script \in CDNScripts(cfg) :
         LET size == variants[idx]
             skip == size \notin s3Url
             r == CDNPublishFile(cfg, script)
         IN
         IF skip \/ r.ok
         THEN /\ cdnStore' = IF skip THEN cdnStore ELSE cdnStore \cup {size}
              /\ cdnUrl' = IF skip THEN cdnUrl ELSE cdnUrl \cup {size}
              /\ IF idx < Len(variants)
                 THEN idx' = idx + 1 /\ pc' = pc /\ cdnPublished' = cdnPublished
                 ELSE idx' = 0 /\ pc' = "meta" /\ cdnPublished' = TRUE
              /\ UNCHANGED <<error, failedStep, failedIdx>>
         ELSE /\ Throw("cdn", idx, Wrap(Err("StorageError", "Failed to publish to CDN"), r.err))
              /\ UNCHANGED <<cdnStore, cdnUrl, cdnPublished, idx>>
    /\ UNCHANGED <<cfg, tasks, tempDisk, unlinkFailed, variants, s3Url,
                   optFailed, tempFilesCreated, fileStorageSaved, s3Uploaded,
                   metadataSaved, fileStore, s3Store, metaCache, metaDisk,
                   rollbackErrors, rbLog, compCalls, thrown, returned, metadata,
                   cacheRecord, retry, delRun, delTwice, conc, scale, cancelledAt,
                   afterDelete, breaker, doc>>

\* Step 8: metadataStorage.save(metadata, config).
SaveMetadata ==
    /\ pc = "meta"
    /\ metadata' = <<MetadataRecord(variants, s3Url, cdnUrl)>>
    /\ fwdCalls' = Append(fwdCalls, Call("metadataStorage.save", ""))
    /\ \E persistFails \in BOOLEAN :
         LET r == MetadataSave(cfg, metaCache, metaDisk, persistFails) IN
         /\ metaCache' = r.cache
         /\ cacheRecord' = CacheSet(cfg, cacheRecord, metadata')
         /\ metaDisk' = r.disk
         /\ IF r.err = NoError
            THEN /\ metadataSaved' = TRUE
                 /\ pc' = "cleanup"
                 /\ UNCHANGED <<error, failedStep, failedIdx>>
            ELSE /\ Throw("meta", 1, Wrap(Err("DatabaseError", "Failed to save metadata"), r.err))
                 /\ UNCHANGED metadataSaved
    /\ UNCHANGED <<cfg, idx, tasks, tempDisk, unlinkFailed, variants,
                   s3Url, cdnUrl, optFailed, tempFilesCreated, fileStorageSaved,
                   s3Uploaded, cdnPublished, fileStore, s3Store, cdnStore,
                   rollbackErrors, rbLog, compCalls, thrown, returned, retry,
                   delRun, delTwice, conc, scale, cancelledAt, afterDelete, breaker,
                   doc>>

\* Step 9: processor.cleanupFiles(tempFilesCreated), whose error is only
\* logged, and the return of the metadata record.
CleanupTempFiles ==
    /\ pc = "cleanup"
    /\ \E failing \in SUBSET tempFilesCreated :
         LET r == CleanupFiles(tempFilesCreated, tempDisk, failing) IN
         /\ tempDisk' = r.disk
         /\ unlinkFailed' = unlinkFailed \cup r.failed
    /\ returned' = TRUE
    /\ pc' = "done"
    /\ UNCHANGED <<cfg, idx, tasks, variants, s3Url, cdnUrl, optFailed,
                   tempFilesCreated, fileStorageSaved, s3Uploaded, cdnPublished,
                   metadataSaved, fileStore, s3Store, cdnStore, metaCache, metaDisk,
                   error, failedStep, failedIdx, rollbackErrors, rbLog, compCalls,
                   thrown, fwdCalls, metadata, cacheRecord, retry, delRun, delTwice,
                   conc, scale, cancelledAt, afterDelete, breaker, doc>>


\* Rollback 1: if (cdnPublished) invalidate every key of variants.
RollbackCDN ==
    /\ pc = "rb_cdn"
    /\ IF cdnPublished
       THEN /\ rbLog' = Append(rbLog, "cdn")
            /\ IF "variants" \in CatchScope
               THEN LET r == InvalidateLoop(variants, cdnStore) IN
                    /\ cdnStore' = r.store
                    /\ compCalls' = compCalls \o r.calls
                    /\ UNCHANGED rollbackErrors
               ELSE /\ rollbackErrors' = Append(rollbackErrors, ReferenceError)
                    /\ UNCHANGED <<cdnStore, compCalls>>
       ELSE UNCHANGED <<rbLog, cdnStore, compCalls, rollbackErrors>>
    /\ pc' = "rb_s3"
    /\ UNCHANGED <<cfg, idx, tasks, tempDisk, unlinkFailed, variants,
                   s3Url, cdnUrl, optFailed, tempFilesCreated, fileStorageSaved,
                   s3Uploaded, cdnPublished, metadataSaved, fileStore, s3Store,
                   metaCache, metaDisk, error, failedStep, failedIdx, thrown,
                   returned, fwdCalls, metadata, cacheRecord, retry, delRun,
                   delTwice, conc, scale, cancelledAt, afterDelete, breaker, doc>>

\* Rollback 2 entered whatever s3Uploaded says.
RollbackS3Unguarded ==
    /\ pc = "rb_s3"
    /\ rbLog' = Append(rbLog, "s3")
    /\ rollbackErrors' = Append(rollbackErrors, ReferenceError)
    /\ pc' = "rb_file"
    /\ UNCHANGED <<cfg, idx, tasks, tempDisk, unlinkFailed, variants,
                   s3Url, cdnUrl, optFailed, tempFilesCreated, fileStorageSaved,
                   s3Uploaded, cdnPublished, metadataSaved, fileStore, s3Store,
                   cdnStore, metaCache, metaDisk, error, failedStep, failedIdx,
                   compCalls, thrown, returned, fwdCalls, metadata, cacheRecord,
                   retry, delRun, delTwice, conc, scale, cancelledAt, afterDelete,
                   breaker, doc>>

\* Rollback 2: if (s3Uploaded) delete every key of variants from S3.
RollbackS3 ==
    /\ pc = "rb_s3"
    /\ IF s3Uploaded
       THEN /\ rbLog' = Append(rbLog, "s3")
            /\ IF "variants" \in CatchScope
               THEN \E failing \in SUBSET s3Store :
                      LET r == S3DeleteLoop(variants, s3Store, failing) IN
                      /\ s3Store' = r.store
                      /\ compCalls' = compCalls \o r.calls
                      /\ rollbackErrors' = IF r.err = NoError THEN rollbackErrors
                                           ELSE Append(rollbackErrors, r.err)
               ELSE /\ rollbackErrors' = Append(rollbackErrors, ReferenceError)
                    /\ UNCHANGED <<s3Store, compCalls>>
       ELSE UNCHANGED <<rbLog, s3Store, compCalls, rollbackErrors>>
    /\ pc' = "rb_file"
    /\ UNCHANGED <<cfg, idx, tasks, tempDisk, unlinkFailed, variants,
                   s3Url, cdnUrl, optFailed, tempFilesCreated, fileStorageSaved,
                   s3Uploaded, cdnPublished, metadataSaved, fileStore, cdnStore,
                   metaCache, metaDisk, error, failedStep, failedIdx, thrown,
                   returned, fwdCalls, metadata, cacheRecord, retry, delRun,
                   delTwice, conc, scale, cancelledAt, afterDelete, breaker, doc>>

\* Rollback 3: if (fileStorageSaved) fileStorage.deleteFile(`${imageId}-original`).
RollbackFile ==
    /\ pc = "rb_file"
    /\ IF fileStorageSaved
       THEN \E unlinkFails \in BOOLEAN :
              LET r == FileDeleteFile(fileStore, unlinkFails) IN
              /\ rbLog' = Append(rbLog, "file")
              /\ compCalls' = Append(compCalls, Call("file.deleteFile", "original"))
              /\ fileStore' = r.store
              /\ rollbackErrors' = IF r.err = NoError THEN rollbackErrors
                                   ELSE Append(rollbackErrors, r.err)
       ELSE UNCHANGED <<rbLog, fileStore, compCalls, rollbackErrors>>
    /\ pc' = "rb_temp"
    /\ UNCHANGED <<cfg, idx, tasks, tempDisk, unlinkFailed, variants,
                   s3Url, cdnUrl, optFailed, tempFilesCreated, fileStorageSaved,
                   s3Uploaded, cdnPublished, metadataSaved, s3Store, cdnStore,
                   metaCache, metaDisk, error, failedStep, failedIdx, thrown,
                   returned, fwdCalls, metadata, cacheRecord, retry, delRun,
                   delTwice, conc, scale, cancelledAt, afterDelete, breaker, doc>>

\* A catch block without Rollback 4: the temp files are left where they are.
RollbackTempSkipped ==
    /\ pc = "rb_temp"
    /\ pc' = "rethrow"
    /\ UNCHANGED <<cfg, idx, tasks, tempDisk, unlinkFailed, variants,
                   s3Url, cdnUrl, optFailed, tempFilesCreated, fileStorageSaved,
                   s3Uploaded, cdnPublished, metadataSaved, fileStore, s3Store,
                   cdnStore, metaCache, metaDisk, error, failedStep, failedIdx,
                   rollbackErrors, rbLog, compCalls, thrown, returned, fwdCalls,
                   metadata, cacheRecord, retry, delRun, delTwice, conc, scale,
                   cancelledAt, afterDelete, breaker, doc>>

\* Rollback 4: if (tempFilesCreated.length > 0) cleanupFiles(tempFilesCreated);
\* its error is only logged.
RollbackTemp ==
    /\ pc = "rb_temp"
    /\ IF tempFilesCreated # {}
       THEN \E failing \in SUBSET tempFilesCreated :
              LET r == CleanupFiles(tempFilesCreated, tempDisk, failing) IN
              /\ rbLog' = Append(rbLog, "temp")
              /\ tempDisk' = r.disk
              /\ unlinkFailed' = unlinkFailed \cup r.failed
       ELSE UNCHANGED <<rbLog, tempDisk, unlinkFailed>>
    /\ pc' = "rethrow"
    /\ UNCHANGED <<cfg, idx, tasks, variants, s3Url, cdnUrl, optFailed,
                   tempFilesCreated, fileStorageSaved, s3Uploaded, cdnPublished,
                   metadataSaved, fileStore, s3Store, cdnStore, metaCache, metaDisk,
                   error, failedStep, failedIdx, rollbackErrors, compCalls, thrown,
                   returned, fwdCalls, metadata, cacheRecord, retry, delRun,
                   delTwice, conc, scale, cancelledAt, afterDelete, breaker, doc>>

\* The catch block throwing the first rollback error when there is one.
RethrowRollbackError ==
    /\ pc = "rethrow"
    /\ thrown' = IF rollbackErrors # <<>> THEN rollbackErrors[1] ELSE error
    /\ pc' = "failed"
    /\ UNCHANGED <<cfg, idx, tasks, tempDisk, unlinkFailed, variants,
                   s3Url, cdnUrl, optFailed, tempFilesCreated, fileStorageSaved,
                   s3Uploaded, cdnPublished, metadataSaved, fileStore, s3Store,
                   cdnStore, metaCache, metaDisk, error, failedStep, failedIdx,
                   rollbackErrors, rbLog, compCalls, returned, fwdCalls, metadata,
                   cacheRecord, retry, delRun, delTwice, conc, scale, cancelledAt,
                   afterDelete, breaker, doc>>

\* The catch block run again instead of rethrowing.
RethrowRunsRollbackAgain ==
    /\ pc = "rethrow"
    /\ pc' = "rb_cdn"
    /\ UNCHANGED <<cfg, idx, tasks, tempDisk, unlinkFailed, variants,
                   s3Url, cdnUrl, optFailed, tempFilesCreated, fileStorageSaved,
                   s3Uploaded, cdnPublished, metadataSaved, fileStore, s3Store,
                   cdnStore, metaCache, metaDisk, error, failedStep, failedIdx,
                   rollbackErrors, rbLog, compCalls, thrown, returned, fwdCalls,
                   metadata, cacheRecord, retry, delRun, delTwice, conc, scale,
                   cancelledAt, afterDelete, breaker, doc>>

\* throw error: the caught error is rethrown as it is; rollbackErrors is a
\* local of the catch block that is logged and dropped.
Rethrow ==
    /\ pc = "rethrow"
    /\ thrown' = error
    /\ pc' = "failed"
    /\ UNCHANGED <<cfg, idx, tasks, tempDisk, unlinkFailed, variants,
                   s3Url, cdnUrl, optFailed, tempFilesCreated, fileStorageSaved,
                   s3Uploaded, cdnPublished, metadataSaved, fileStore, s3Store,
                   cdnStore, metaCache, metaDisk, error, failedStep, failedIdx,
                   rollbackErrors, rbLog, compCalls, returned, fwdCalls, metadata,
                   cacheRecord, retry, delRun, delTwice, conc, scale, cancelledAt,
                   afterDelete, breaker, doc>>

\* The compensation errors that the value thrown by processImage carries: no
\* error class of types.ts has such a field and the catch block sets none.
CompensationErrorsOf(e) == <<>>

----------------------------------------------------------------------------
(* Specification *)

Init ==
    /\ cfg \in {c \in SUBSET ProcessingConfig : Cardinality(c) <= MaxFlags}
    /\ pc = "validate"
    /\ idx = 0
    /\ tasks = [s \in Range(ResizeSizes) |-> Pending]
    /\ tempDisk = {}
    /\ unlinkFailed = {}
    /\ variants = <<>>
    /\ s3Url = {}
    /\ cdnUrl = {}
    /\ optFailed = {}
    /\ tempFilesCreated = {}
    /\ fileStorageSaved = FALSE
    /\ s3Uploaded = FALSE
    /\ cdnPublished = FALSE
    /\ metadataSaved = FALSE
    /\ fileStore = FALSE
    /\ s3Store = {}
    /\ cdnStore = {}
    /\ metaCache = FALSE
    /\ metaDisk = FALSE
    /\ error = NoError
    /\ failedStep = ""
    /\ failedIdx = 0
    /\ rollbackErrors = <<>>
    /\ rbLog = <<>>
    /\ compCalls = <<>>
    /\ thrown = NoError
    /\ returned = FALSE
    /\ fwdCalls = <<>>
    /\ metadata = <<>>
    /\ cacheRecord = <<>>
    /\ retry = NoCall
    /\ delRun = NoDeleteImage
    /\ delTwice = NoDeleteTwice
    /\ conc = ConcInit
    /\ scale = NoScale
    /\ cancelledAt = ""
    /\ afterDelete = NoAfterDelete
    /\ breaker = BreakerInit
    /\ doc = NoUpdate

Next ==
    \/ Validate
    \/ ExtractDimensions
    \/ \E size \in Range(ResizeSizes) : ResizeSingle(size)
    \/ ResizeAggregate
    \/ Optimize
    \/ SaveToFileStorage
    \/ UploadToS3
    \/ PublishToCDN
    \/ SaveMetadata
    \/ CleanupTempFiles
    \/ RollbackCDN
    \/ RollbackS3
    \/ RollbackFile
    \/ RollbackTemp
    \/ Rethrow

Spec == Init /\ [][Next]_vars


----------------------------------------------------------------------------
(* Properties of processImage and resizeToAllSizes *)

Fulfilled4 == Range(SelectSizes(ResizeSizes, tasks, "fulfilled"))
Rejected4 == SelectSizes(ResizeSizes, tasks, "rejected")

Issued(op, key) == \E i \in DOMAIN compCalls : compCalls[i] = Call(op, key)

\* The message of the error processImage wraps a storage step's failure in.
StepMessage(step) ==
    CASE step = "file" -> "Failed to save to file storage"
      [] step = "s3"   -> "Failed to upload to S3"
      [] step = "cdn"  -> "Failed to publish to CDN"
      [] step = "meta" -> "Failed to save metadata"
      [] OTHER         -> ""

\* C1: when the S3 upload step or the CDN publish step fails on its Nth
\* variant, N >= 2, then before the error is returned rollback has issued
\* s3Storage.deleteFile (cdnPublisher.invalidate) for the key of each of the
\* N-1 variants the step had already written.
C1_PartialStepCompensated ==
    (pc = "failed" /\ failedStep \in {"s3", "cdn"} /\ failedIdx >= 2)
    => \A i \in 1..(failedIdx - 1) :
         Issued(IF failedStep = "s3" THEN "s3.deleteFile" ELSE "cdn.invalidate",
                variants[i])

\* C2: with only shouldFailCDN set, a run that reaches the publish step throws
\* the error of the publish step, and afterwards metadataStorage.get(id)
\* finds nothing, no images/<id>/<size>.jpg is left in S3 and <id>-original is
\* not in file storage.
C2_CdnFailureLeavesNothing ==
    (cfg = {"shouldFailCDN"} /\ pc = "failed" /\ failedStep = "cdn")
    => /\ Head(thrown).msg = StepMessage("cdn")
       /\ ~MetadataGet(metaCache)
       /\ s3Store = {}
       /\ ~fileStore

\* C3: after every run that ended in failure, metadataStorage.get(id) reports
\* not-found for the id of the run.
C3_NoRecordAfterFailure ==
    pc = "failed" => ~MetadataGet(metaCache)

\* C4: when the metadata save fails after the three storage steps have
\* committed, rollback invalidates every CDN key, deletes every S3 key and
\* deletes <id>-original, and no key of the run is left in S3 or on the CDN.
C4_MetadataFailureCompensatesAll ==
    (pc = "failed" /\ failedStep = "meta")
    => /\ \A i \in DOMAIN variants :
            /\ Issued("cdn.invalidate", variants[i])
            /\ Issued("s3.deleteFile", variants[i])
       /\ Issued("file.deleteFile", "original")
       /\ cdnStore = {}
       /\ s3Store = {}

\* C5: the error processImage throws is the error of the forward step that
\* failed -- for a storage or metadata step the step's wrapper with the
\* backend's error as its cause -- and never an error of the rollback,
\* however many rollback operations failed.
C5_TriggeringErrorReturned ==
    pc = "failed"
    => /\ thrown # NoError
       /\ \A i \in DOMAIN rollbackErrors : thrown # rollbackErrors[i]
       /\ Head(thrown).name # "ReferenceError"
       /\ failedStep \in {"file", "s3", "cdn", "meta"}
            => /\ Head(thrown).msg = StepMessage(failedStep)
               /\ Head(thrown).name =
                    (IF failedStep = "meta" THEN "DatabaseError" ELSE "StorageError")
               /\ Len(thrown) >= 2
       /\ failedStep = "resize"
            => Head(thrown).name \in {"ProcessingError", "ResourceError", "Error"}
       /\ failedStep = "validate" => Head(thrown).name = "ValidationError"

\* A failed run during whose rollback two operations failed.
C5_Witness ==
    pc = "failed" /\ failedStep = "cdn" /\ Len(rollbackErrors) >= 2

\* C6: the error thrown by a failed run carries the list of the compensation
\* errors collected during rollback, one entry per failed compensation call.
C6_CompensationErrorsCarried ==
    pc = "failed" /\ failedStep # "validate"
    => CompensationErrorsOf(thrown) = rollbackErrors

\* C7: rollback issues the delete (invalidate) call for every key of every
\* committed storage step, whatever compensation call has failed before.
C7_EveryCommittedKeyDeleted ==
    pc = "failed"
    => /\ cdnPublished => \A i \in DOMAIN variants : Issued("cdn.invalidate", variants[i])
       /\ s3Uploaded => \A i \in DOMAIN variants : Issued("s3.deleteFile", variants[i])
       /\ fileStorageSaved => Issued("file.deleteFile", "original")

\* The position of a rollback block in the reverse of the commit order.
RollbackRank(step) ==
    CASE step = "cdn" -> 1 [] step = "s3" -> 2 [] step = "file" -> 3 [] step = "temp" -> 4

Committed(step) ==
    CASE step = "cdn"  -> cdnPublished
      [] step = "s3"   -> s3Uploaded
      [] step = "file" -> fileStorageSaved
      [] step = "temp" -> tempFilesCreated # {}

\* C8: the rollback blocks are entered in the reverse of the commit order
\* (CDN, S3, file storage, temp files), each at most once, only on failure
\* and only for a step whose flag records it as committed.
C8_ReverseOrderCompensation ==
    /\ \A i, j \in DOMAIN rbLog : i < j => RollbackRank(rbLog[i]) < RollbackRank(rbLog[j])
    /\ \A i \in DOMAIN rbLog : Committed(rbLog[i])
    /\ rbLog # <<>> => failedStep # ""

\* A failed run that entered all four rollback blocks.
C8_Witness ==
    pc = "failed" /\ rbLog = <<"cdn", "s3", "file", "temp">>

\* C9 as stated: once resizeToAllSizes has thrown because a resize task
\* failed, no temp file of the run exists and no variant was returned.
C9_NoTempFileAfterResizeFailure ==
    (failedStep = "resize" /\ Rejected4 # <<>>)
    => tempDisk = {} /\ variants = <<>> /\ tempFilesCreated = {}

\* C9 amended: once resizeToAllSizes has thrown because a resize task failed,
\* the only temp files of the run that exist are outputs whose fs.unlink
\* threw during the cleanup, and no variant was returned.
C9_OnlyUndeletableTempFilesRemain ==
    (failedStep = "resize" /\ Rejected4 # <<>>)
    => /\ tempDisk \subseteq unlinkFailed
       /\ unlinkFailed \subseteq Fulfilled4
       /\ variants = <<>>
       /\ tempFilesCreated = {}

\* One task failed, three outputs were written, the cleanup deleted some of
\* them and failed to delete another.
C9_Witness ==
    /\ failedStep = "resize"
    /\ Len(Rejected4) = 1
    /\ tempDisk # {}
    /\ tempDisk # Fulfilled4
    /\ tempDisk = unlinkFailed

\* C10: whenever a resize task fails, the error of resizeToAllSizes is the
\* aggregated ProcessingError that names every failed size class and has the
\* error of the first failed task as its cause.
C10_AggregatedResizeError ==
    (failedStep = "resize" /\ Rejected4 # <<>>)
    => /\ Head(error).name = "ProcessingError"
       /\ Head(error).sizes = Range(Rejected4)
       /\ Tail(error) = tasks[Rejected4[1]].err

----------------------------------------------------------------------------
(* Properties of the forward pass *)

\* C11: when resizeToAllSizes (the resizes or its write of the original) has
\* failed, the run ends having issued no delete or invalidate call and no
\* metadata write, it rejects with the error of resizeToAllSizes, and no temp
\* file of the run is left on disk.
C11_GeneratorFailureLeavesNothing ==
    (pc = "failed" /\ failedStep = "resize")
    => /\ compCalls = <<>>
       /\ ~metaCache /\ ~metaDisk
       /\ \A i \in DOMAIN fwdCalls : fwdCalls[i].op # "metadataStorage.save"
       /\ thrown = error
       /\ tempDisk = {}

\* The forward calls of processImage in the order of its source text.
ForwardOps ==
    <<"processor.extractDimensions", "processor.resizeToAllSizes",
      "processor.optimize", "fileStorage.saveFile", "s3Storage.uploadFile",
      "cdnPublisher.publishFile", "metadataStorage.save">>

ForwardRank(op) == CHOOSE r \in DOMAIN ForwardOps : ForwardOps[r] = op

\* The forward call that the step named by failedStep issues.
StepOp(step) ==
    CASE step = "resize" -> "processor.resizeToAllSizes"
      [] step = "file"   -> "fileStorage.saveFile"
      [] step = "s3"     -> "s3Storage.uploadFile"
      [] step = "cdn"    -> "cdnPublisher.publishFile"
      [] step = "meta"   -> "metadataStorage.save"

\* The number of calls a step issues when it runs through: one per variant
\* for the three loops, one otherwise.
CallsPerStep(op) ==
    IF op \in {"processor.optimize", "s3Storage.uploadFile", "cdnPublisher.publishFile"}
    THEN Len(variants) ELSE 1

CallsOf(op) == Cardinality({i \in DOMAIN fwdCalls : fwdCalls[i].op = op})

\* C12: the forward calls of a run are issued in the order extractDimensions,
\* resizeToAllSizes, optimize, file storage, S3, CDN, metadata; a call of a
\* step is issued only when every call of each earlier step has completed;
\* once a step has thrown no further forward call is issued; and with both
\* shouldFailStorage and shouldFailCDN set, S3, CDN and metadata are never
\* called.
C12_FixedStepOrder ==
    /\ \A i, j \in DOMAIN fwdCalls :
         i < j => ForwardRank(fwdCalls[i].op) <= ForwardRank(fwdCalls[j].op)
    /\ \A i \in DOMAIN fwdCalls : \A r \in DOMAIN ForwardOps :
         r < ForwardRank(fwdCalls[i].op) => CallsOf(ForwardOps[r]) = CallsPerStep(ForwardOps[r])
    /\ failedStep = "validate" => fwdCalls = <<>>
    /\ failedStep \notin {"", "validate"}
         => fwdCalls[Len(fwdCalls)].op = StepOp(failedStep)
    /\ {"shouldFailStorage", "shouldFailCDN"} \subseteq cfg
         => \A i \in DOMAIN fwdCalls :
              ForwardRank(fwdCalls[i].op) <= ForwardRank("fileStorage.saveFile")

\* A run with both storage and CDN failures configured that has failed at
\* the file storage step.
C12_Witness ==
    /\ cfg = {"shouldFailStorage", "shouldFailCDN"}
    /\ pc = "failed"
    /\ failedStep = "file"
    /\ CallsOf("processor.optimize") = 5

\* C13: the record a successful run returns has a variants map with every
\* size class: thumbnail, small, medium, large and original.
C13_EverySizeClassReturned ==
    returned
    => /\ metadata # <<>>
       /\ Range(metadata[1].sizes) = Range(SizeOrder)
       /\ Len(metadata[1].sizes) = Len(SizeOrder)

\* A run that has returned its record.
C13_Witness ==
    returned /\ pc = "done" /\ Len(metadata) = 1

\* The ids that exist under FileStorage.basePath, named by size class: step 5
\* saves `${imageId}-original` and nothing else.
FileStoreKeys == IF fileStore THEN {"original"} ELSE {}

CallsWith(op, key) == Cardinality({i \in DOMAIN fwdCalls : fwdCalls[i] = Call(op, key)})

\* C14: on a successful run every variant of the returned record, the
\* original included, was written by one call to each of file storage, S3
\* and the CDN, and has a location at each of the three tiers.
C14_EveryVariantAtThreeTiers ==
    returned
    => \A i \in DOMAIN metadata[1].sizes :
         LET size == metadata[1].sizes[i] IN
         /\ CallsWith("fileStorage.saveFile", size) = 1
         /\ CallsWith("s3Storage.uploadFile", size) = 1
         /\ CallsWith("cdnPublisher.publishFile", size) = 1
         /\ size \in FileStoreKeys
         /\ size \in metadata[1].s3Url
         /\ size \in metadata[1].cdnUrl

\* C15: after a successful run metadataStorage.get(id) returns the record
\* that processImage returned, with the same variants map in which every
\* variant has its s3Url and its cdnUrl.
C15_StoredRecordIsReturnedRecord ==
    returned
    => /\ MetadataGet(metaCache)
       /\ CacheGet(metaCache, cacheRecord) = metadata
       /\ metadata[1].s3Url = Range(metadata[1].sizes)
       /\ metadata[1].cdnUrl = Range(metadata[1].sizes)

\* A returned run whose record is in the cache and persisted.
C15_Witness ==
    returned /\ CacheGet(metaCache, cacheRecord) # <<>> /\ metaDisk

\* The size classes whose variant has its filePath set: resizeSingle and the
\* original are built with it, so every variant of the record has.
FilePathSet == Range(variants)

\* C16: at every point of a run, a variant has an s3Url only if it has its
\* filePath and a cdnUrl only if it has an s3Url, and every publishFile call
\* issued was for a variant with an s3Url.
C16_UrlsSetInTierOrder ==
    /\ s3Url \subseteq FilePathSet
    /\ cdnUrl \subseteq s3Url
    /\ \A i \in DOMAIN fwdCalls :
         fwdCalls[i].op = "cdnPublisher.publishFile" => fwdCalls[i].key \in s3Url

\* The publish loop under way: some variants published, others uploaded only.
C16_Witness ==
    /\ pc = "cdn"
    /\ cdnUrl # {}
    /\ cdnUrl # s3Url
    /\ CallsOf("cdnPublisher.publishFile") = 2

\* C17: the flags fileStorageSaved, s3Uploaded, cdnPublished, metadataSaved
\* never go from true to false, a flag is true only if the flag of the step
\* before it is, and a flag is true only if every write of its step
\* succeeded.
C17_CommittedStateOnlyGrows ==
    [][ /\ fileStorageSaved => fileStorageSaved'
        /\ s3Uploaded => s3Uploaded'
        /\ cdnPublished => cdnPublished'
        /\ metadataSaved => metadataSaved'
        /\ metadataSaved' => cdnPublished'
        /\ cdnPublished' => s3Uploaded'
        /\ s3Uploaded' => fileStorageSaved'
        /\ fileStorageSaved' => failedStep' # "file" /\ (fileStore' \/ "file" \in Range(rbLog'))
        /\ s3Uploaded' => failedStep' # "s3" /\ s3Url' = Range(variants')
        /\ cdnPublished' => failedStep' # "cdn" /\ cdnUrl' = Range(variants')
        /\ metadataSaved' => failedStep' # "meta" /\ metaCache' /\ metaDisk'
      ]_vars

\* All four flags are set.
C17_Witness ==
    fileStorageSaved /\ s3Uploaded /\ cdnPublished /\ metadataSaved /\ pc = "cleanup"

\* C18: an error of optimize never reaches the catch block, and a run that
\* returned after optimize failed for some variants returns every variant,
\* has entered no rollback block and has every key it wrote still stored.
C18_OptimizeFailureTolerated ==
    /\ failedStep # "optimize"
    /\ error # NoError => failedStep \in {"resize", "file", "s3", "cdn", "meta"}
    /\ (returned /\ optFailed # {})
         => /\ Range(metadata[1].sizes) = Range(SizeOrder)
            /\ rbLog = <<>>
            /\ compCalls = <<>>
            /\ rollbackErrors = <<>>
            /\ fileStore
            /\ s3Store = Range(SizeOrder)
            /\ cdnStore = Range(SizeOrder)

\* A returned run in which optimize failed for two of the five variants.
C18_Witness ==
    returned /\ Cardinality(optFailed) = 2 /\ "original" \in optFailed

----------------------------------------------------------------------------
(* One call of a retrying function, taken by itself *)

\* s3Storage.uploadFile(filePath, key, config) is called once.
CallS3UploadFile ==
    /\ retry = NoCall
    /\ \E c \in SUBSET {"failureRate", "shouldFailS3"} :
         \E script \in RetryScripts("s3", c) :
           retry' = [fn |-> "s3", cfg |-> c, script |-> script,
                     out |-> <<S3UploadFile(c, script)>>]
    /\ UNCHANGED <<cfg, pc, idx, tasks, tempDisk, unlinkFailed,
                   variants, s3Url, cdnUrl, optFailed, tempFilesCreated,
                   fileStorageSaved, s3Uploaded, cdnPublished, metadataSaved,
                   fileStore, s3Store, cdnStore, metaCache, metaDisk, error,
                   failedStep, failedIdx, rollbackErrors, rbLog, compCalls, thrown,
                   returned, fwdCalls, metadata, cacheRecord, delRun, delTwice,
                   conc, scale, cancelledAt, afterDelete, breaker, doc>>

\* cdnPublisher.publishFile(s3Url, key, config) is called once.
CallCDNPublishFile ==
    /\ retry = NoCall
    /\ \E c \in SUBSET {"failureRate", "shouldFailCDN"} :
         \E script \in RetryScripts("cdn", c) :
           retry' = [fn |-> "cdn", cfg |-> c, script |-> script,
                     out |-> <<CDNPublishFile(c, script)>>]
    /\ UNCHANGED <<cfg, pc, idx, tasks, tempDisk, unlinkFailed,
                   variants, s3Url, cdnUrl, optFailed, tempFilesCreated,
                   fileStorageSaved, s3Uploaded, cdnPublished, metadataSaved,
                   fileStore, s3Store, cdnStore, metaCache, metaDisk, error,
                   failedStep, failedIdx, rollbackErrors, rbLog, compCalls, thrown,
                   returned, fwdCalls, metadata, cacheRecord, delRun, delTwice,
                   conc, scale, cancelledAt, afterDelete, breaker, doc>>

\* fileStorage.saveFile(id, content, config) is called once.
CallFileSaveFile ==
    /\ retry = NoCall
    /\ \E c \in SUBSET {"failureRate", "shouldFailStorage"} :
         \E script \in RetryScripts("file", c) :
           retry' = [fn |-> "file", cfg |-> c, script |-> script,
                     out |-> <<FileSaveFile(c, script)>>]
    /\ UNCHANGED <<cfg, pc, idx, tasks, tempDisk, unlinkFailed,
                   variants, s3Url, cdnUrl, optFailed, tempFilesCreated,
                   fileStorageSaved, s3Uploaded, cdnPublished, metadataSaved,
                   fileStore, s3Store, cdnStore, metaCache, metaDisk, error,
                   failedStep, failedIdx, rollbackErrors, rbLog, compCalls, thrown,
                   returned, fwdCalls, metadata, cacheRecord, delRun, delTwice,
                   conc, scale, cancelledAt, afterDelete, breaker, doc>>

\* withRetry(operation) is called once, with its default parameters.
CallWithRetry ==
    /\ retry = NoCall
    /\ \E script \in RetryScripts("withRetry", {}) :
         retry' = [fn |-> "withRetry", cfg |-> {}, script |-> script,
                   out |-> <<WithRetry(script)>>]
    /\ UNCHANGED <<cfg, pc, idx, tasks, tempDisk, unlinkFailed,
                   variants, s3Url, cdnUrl, optFailed, tempFilesCreated,
                   fileStorageSaved, s3Uploaded, cdnPublished, metadataSaved,
                   fileStore, s3Store, cdnStore, metaCache, metaDisk, error,
                   failedStep, failedIdx, rollbackErrors, rbLog, compCalls, thrown,
                   returned, fwdCalls, metadata, cacheRecord, delRun, delTwice,
                   conc, scale, cancelledAt, afterDelete, breaker, doc>>

\* What the single fs.unlink of a delete call can do: delete the file, throw
\* ENOENT because the file does not exist, or throw another error.
UnlinkOutcomes == {"ok", "absent", "fatal"}

\* A delete call seen as a call of a retrying function: there is no loop, the
\* primitive is tried once and no delay is waited.
DeleteResult(e) == [ok |-> e = NoError, attempts |-> 1, delays |-> <<>>, err |-> e]

\* s3Storage.deleteFile(key) is called once.
CallS3DeleteFile ==
    /\ retry = NoCall
    /\ \E o \in UnlinkOutcomes :
         LET store == IF o = "absent" THEN {} ELSE {"original"}
             r == S3DeleteFile(store, "original", o = "fatal")
         IN retry' = [fn |-> "s3Delete", cfg |-> {}, script |-> <<o>>,
                      out |-> <<DeleteResult(r.err)>>]
    /\ UNCHANGED <<cfg, pc, idx, tasks, tempDisk, unlinkFailed,
                   variants, s3Url, cdnUrl, optFailed, tempFilesCreated,
                   fileStorageSaved, s3Uploaded, cdnPublished, metadataSaved,
                   fileStore, s3Store, cdnStore, metaCache, metaDisk, error,
                   failedStep, failedIdx, rollbackErrors, rbLog, compCalls, thrown,
                   returned, fwdCalls, metadata, cacheRecord, delRun, delTwice,
                   conc, scale, cancelledAt, afterDelete, breaker, doc>>

\* fileStorage.deleteFile(id) is called once.
CallFileDeleteFile ==
    /\ retry = NoCall
    /\ \E o \in UnlinkOutcomes :
         LET r == FileDeleteFile(o # "absent", o = "fatal") IN
         retry' = [fn |-> "fileDelete", cfg |-> {}, script |-> <<o>>,
                   out |-> <<DeleteResult(r.err)>>]
    /\ UNCHANGED <<cfg, pc, idx, tasks, tempDisk, unlinkFailed,
                   variants, s3Url, cdnUrl, optFailed, tempFilesCreated,
                   fileStorageSaved, s3Uploaded, cdnPublished, metadataSaved,
                   fileStore, s3Store, cdnStore, metaCache, metaDisk, error,
                   failedStep, failedIdx, rollbackErrors, rbLog, compCalls, thrown,
                   returned, fwdCalls, metadata, cacheRecord, delRun, delTwice,
                   conc, scale, cancelledAt, afterDelete, breaker, doc>>

\* cdnPublisher.invalidate(key) is called once: it has nothing to unlink.
CallCDNInvalidate ==
    /\ retry = NoCall
    /\ \E present \in BOOLEAN :
         LET store == IF present THEN {"original"} ELSE {}
             r == CDNInvalidate(store, "original")
         IN retry' = [fn |-> "cdnInvalidate", cfg |-> {},
                      script |-> <<IF present THEN "ok" ELSE "absent">>,
                      out |-> <<DeleteResult(r.err)>>]
    /\ UNCHANGED <<cfg, pc, idx, tasks, tempDisk, unlinkFailed,
                   variants, s3Url, cdnUrl, optFailed, tempFilesCreated,
                   fileStorageSaved, s3Uploaded, cdnPublished, metadataSaved,
                   fileStore, s3Store, cdnStore, metaCache, metaDisk, error,
                   failedStep, failedIdx, rollbackErrors, rbLog, compCalls, thrown,
                   returned, fwdCalls, metadata, cacheRecord, delRun, delTwice,
                   conc, scale, cancelledAt, afterDelete, breaker, doc>>

InitRetry == Init /\ cfg = {}

NextRetry ==
    \/ CallS3UploadFile
    \/ CallCDNPublishFile
    \/ CallFileSaveFile
    \/ CallWithRetry
    \/ CallS3DeleteFile
    \/ CallFileDeleteFile
    \/ CallCDNInvalidate

SpecRetry == InitRetry /\ [][NextRetry]_vars

\* The call has been made with an injection flag of its backend set: the
\* error is thrown before the retry loop.
Injected ==
    retry.cfg \cap {"shouldFailS3", "shouldFailCDN", "shouldFailStorage"} # {}

\* The first attempt of the script that does not throw a NetworkError.
FirstNonNet(s) ==
    CHOOSE k \in DOMAIN s : s[k] # "net" /\ \A j \in 1..(k - 1) : s[j] = "net"

\* C19: in saveFile, uploadFile and publishFile an attempt that fails with a
\* fatal error is the last attempt of the call and no delay is waited after
\* it: a call whose first attempt fails fatally is attempted once and waits
\* no delay, although attempts remain; an injected failure is thrown without
\* any delay either.
C19_FatalErrorNotRetried ==
    (retry.fn \in {"s3", "cdn", "file"} /\ retry.out # <<>>)
    => LET r == retry.out[1]
           s == retry.script
       IN
       /\ Injected => ~r.ok /\ r.attempts = 0 /\ r.delays = <<>>
       /\ (~Injected /\ s[1] = "fatal")
            => ~r.ok /\ r.attempts = 1 /\ r.delays = <<>>
       /\ (~Injected /\ (\E k \in DOMAIN s : s[k] # "net")
                      /\ s[FirstNonNet(s)] = "fatal")
            => /\ ~r.ok
               /\ r.attempts = FirstNonNet(s)
               /\ Len(r.delays) = FirstNonNet(s) - 1

\* uploadFile whose first attempt failed fatally while a second attempt
\* would have succeeded.
C19_Witness ==
    /\ retry.fn = "s3"
    /\ retry.out # <<>>
    /\ ~Injected
    /\ retry.script[1] = "fatal"
    /\ retry.script[2] = "ok"

\* The configured maximum of a retrying function.
ConfiguredMaximum(fn) ==
    CASE fn = "s3"        -> S3MaxRetries
      [] fn = "cdn"       -> CDNMaxRetries
      [] fn = "file"      -> FileMaxRetries
      [] fn = "withRetry" -> WithRetryMaxAttempts
      [] fn = "s3Delete"      -> S3MaxRetries
      [] fn = "cdnInvalidate" -> CDNMaxRetries
      [] fn = "fileDelete"    -> FileMaxRetries

\* C20: a call whose configured maximum is 3 and whose every attempt fails
\* with a retryable error makes exactly 3 attempts and then returns the
\* error.
C20_AttemptsEqualConfiguredMaximum ==
    (/\ retry.out # <<>>
     /\ ~Injected
     /\ ConfiguredMaximum(retry.fn) = 3
     /\ \A i \in DOMAIN retry.script : retry.script[i] = "net")
    => /\ ~retry.out[1].ok
       /\ retry.out[1].attempts = ConfiguredMaximum(retry.fn)

----------------------------------------------------------------------------
(* Properties of the retry loops *)

\* The base delay of a retrying function.
BaseDelay(fn) ==
    CASE fn = "s3"        -> S3RetryDelayMs
      [] fn = "cdn"       -> CDNRetryDelayMs
      [] fn = "file"      -> FileRetryDelayMs
      [] fn = "withRetry" -> WithRetryBaseDelay

\* The largest number of attempts one call of the function can make.
MaxAttempts(fn) ==
    IF fn = "withRetry" THEN WithRetryMaxAttempts ELSE ConfiguredMaximum(fn) + 1

\* C21: in one call the delay waited after the failed attempt of 0-based
\* index k is base * 2^k, the delays never decrease, none is waited after
\* the last attempt, and none exceeds base * 2^(max attempts - 1).
C21_ExponentialDelays ==
    retry.out # <<>>
    => LET r == retry.out[1]
           base == BaseDelay(retry.fn)
       IN
       /\ \A i \in DOMAIN r.delays : r.delays[i] = base * 2 ^ (i - 1)
       /\ \A i, j \in DOMAIN r.delays : i <= j => r.delays[i] <= r.delays[j]
       /\ r.attempts >= 1 => Len(r.delays) = r.attempts - 1
       /\ r.attempts = 0 => r.delays = <<>>
       /\ \A i \in DOMAIN r.delays :
            r.delays[i] <= base * 2 ^ (MaxAttempts(retry.fn) - 1)

\* publishFile whose six attempts all failed: five delays were waited.
C21_Witness ==
    /\ retry.fn = "cdn"
    /\ retry.out # <<>>
    /\ retry.out[1].attempts = CDNMaxRetries + 1
    /\ retry.out[1].delays = <<200, 400, 800, 1600, 3200>>

\* The attempt count that the message of a give-up error states: each
\* message is built from maxRetries + 1.
ReportedAttempts(e) ==
    CASE e.msg = "Failed to upload to S3 after 4 attempts"   -> S3MaxRetries + 1
      [] e.msg = "Failed to publish to CDN after 6 attempts" -> CDNMaxRetries + 1
      [] e.msg = "Failed to save file after 4 attempts"      -> FileMaxRetries + 1

\* C22: when saveFile, uploadFile or publishFile gives up inside its retry
\* loop, the error thrown has the last error of the loop as its cause and
\* states the number of attempts the call has made.
C22_GiveUpErrorWrapsLastError ==
    (/\ retry.fn \in {"s3", "cdn", "file"}
     /\ retry.out # <<>>
     /\ ~Injected
     /\ ~retry.out[1].ok)
    => LET r == retry.out[1] IN
       /\ Tail(r.err) = CauseOf(retry.script[r.attempts])
       /\ ReportedAttempts(Head(r.err)) = r.attempts

\* The writes and deletes of the three storage backends.
BackendCalls == {"s3", "cdn", "file", "s3Delete", "cdnInvalidate", "fileDelete"}

\* C23: every write and every delete of a backend that is reported as failed
\* has failed inside the retry loop of the backend, injected failures
\* included, and either on an error that is not retryable or after the
\* backend's maximum number of attempts.
C23_EveryCallUnderRetryPolicy ==
    (retry.fn \in BackendCalls /\ retry.out # <<>> /\ ~retry.out[1].ok)
    => LET r == retry.out[1] IN
       /\ r.attempts >= 1
       /\ retry.script[r.attempts] # "net" \/ r.attempts = MaxAttempts(retry.fn)

----------------------------------------------------------------------------
(* ImageService.deleteImage and the delete calls, after a processImage run *)

\* What the Error thrown by deleteImage tells of the errors it collected:
\* `Failed to fully delete image (${errors.length} errors): ${errors[0].message}`.
DeleteImageReport(errors) ==
    [count |-> Len(errors), messages |-> <<Head(errors[1]).msg>>]

AppendError(errors, e) == IF e = NoError THEN errors ELSE Append(errors, e)

\* deleteImage(imageId), called once the processImage run is over.
DeleteImage ==
    /\ pc \in {"done", "failed"}
    /\ delRun = NoDeleteImage
    /\ delTwice = NoDeleteTwice
    /\ IF ~MetadataGet(metaCache)
       THEN /\ delRun' = [NoDeleteImage EXCEPT
                            !.called = TRUE,
                            !.thrown = Wrap(Err("DatabaseError", "Failed to get image"),
                                            <<Err("DatabaseError", "Image not found")>>)]
            /\ UNCHANGED <<cdnStore, s3Store, fileStore, metaCache, metaDisk, cacheRecord>>
       ELSE \E failing \in SUBSET s3Store, unlinkFails, persistFails \in BOOLEAN :
              LET sizes  == CacheGet(metaCache, cacheRecord)[1].sizes
                  cdn    == InvalidateLoop(sizes, cdnStore)
                  s3     == S3DeleteLoop(sizes, s3Store, failing)
                  file   == FileDeleteFile(fileStore, unlinkFails)
                  meta   == MetadataDelete(metaCache, metaDisk, persistFails)
                  errors == AppendError(AppendError(AppendError(AppendError(<<>>,
                              cdn.err), s3.err), file.err), meta.err)
              IN
              /\ cdnStore' = cdn.store
              /\ s3Store' = s3.store
              /\ fileStore' = file.store
              /\ metaCache' = meta.cache
              /\ metaDisk' = meta.disk
              /\ cacheRecord' = IF meta.cache THEN cacheRecord ELSE <<>>
              /\ delRun' = [called |-> TRUE,
                            calls  |-> cdn.calls \o s3.calls
                                       \o <<Call("file.deleteFile", "original"),
                                            Call("metadata.delete", "")>>,
                            errors |-> errors,
                            thrown |-> IF errors = <<>> THEN NoError
                                       ELSE <<Err("Error", "Failed to fully delete image")>>,
                            report |-> IF errors = <<>> THEN <<>>
                                       ELSE <<DeleteImageReport(errors)>>]
    /\ UNCHANGED <<cfg, pc, idx, tasks, tempDisk, unlinkFailed,
                   variants, s3Url, cdnUrl, optFailed, tempFilesCreated,
                   fileStorageSaved, s3Uploaded, cdnPublished, metadataSaved, error,
                   failedStep, failedIdx, rollbackErrors, rbLog, compCalls, thrown,
                   returned, fwdCalls, metadata, retry, delTwice, conc, scale,
                   cancelledAt, afterDelete, breaker, doc>>

\* s3Storage.deleteFile(key) called twice in a row on one key.
DeleteTwiceS3 ==
    /\ pc \in {"done", "failed"}
    /\ delRun = NoDeleteImage
    /\ delTwice = NoDeleteTwice
    /\ \E key \in Range(SizeOrder), fails1, fails2 \in BOOLEAN :
         LET r1 == S3DeleteFile(s3Store, key, fails1)
             r2 == S3DeleteFile(r1.store, key, fails2)
         IN
         /\ s3Store' = r2.store
         /\ delTwice' = [op |-> "s3.deleteFile", key |-> key,
                         wasAbsent |-> key \notin s3Store,
                         err1 |-> r1.err, err2 |-> r2.err,
                         absent |-> key \notin r1.store,
                         unchanged |-> r2.store = r1.store]
    /\ UNCHANGED <<cfg, pc, idx, tasks, tempDisk, unlinkFailed,
                   variants, s3Url, cdnUrl, optFailed, tempFilesCreated,
                   fileStorageSaved, s3Uploaded, cdnPublished, metadataSaved,
                   fileStore, cdnStore, metaCache, metaDisk, error, failedStep,
                   failedIdx, rollbackErrors, rbLog, compCalls, thrown, returned,
                   fwdCalls, metadata, cacheRecord, retry, delRun, conc, scale,
                   cancelledAt, afterDelete, breaker, doc>>

\* fileStorage.deleteFile(`${imageId}-original`) called twice in a row.
DeleteTwiceFile ==
    /\ pc \in {"done", "failed"}
    /\ delRun = NoDeleteImage
    /\ delTwice = NoDeleteTwice
    /\ \E fails1, fails2 \in BOOLEAN :
         LET r1 == FileDeleteFile(fileStore, fails1)
             r2 == FileDeleteFile(r1.store, fails2)
         IN
         /\ fileStore' = r2.store
         /\ delTwice' = [op |-> "file.deleteFile", key |-> "original",
                         wasAbsent |-> ~fileStore,
                         err1 |-> r1.err, err2 |-> r2.err,
                         absent |-> ~r1.store,
                         unchanged |-> r2.store = r1.store]
    /\ UNCHANGED <<cfg, pc, idx, tasks, tempDisk, unlinkFailed,
                   variants, s3Url, cdnUrl, optFailed, tempFilesCreated,
                   fileStorageSaved, s3Uploaded, cdnPublished, metadataSaved,
                   s3Store, cdnStore, metaCache, metaDisk, error, failedStep,
                   failedIdx, rollbackErrors, rbLog, compCalls, thrown, returned,
                   fwdCalls, metadata, cacheRecord, retry, delRun, conc, scale,
                   cancelledAt, afterDelete, breaker, doc>>

\* cdnPublisher.invalidate(key) called twice in a row on one key.
DeleteTwiceCDN ==
    /\ pc \in {"done", "failed"}
    /\ delRun = NoDeleteImage
    /\ delTwice = NoDeleteTwice
    /\ \E key \in Range(SizeOrder) :
         LET r1 == CDNInvalidate(cdnStore, key)
             r2 == CDNInvalidate(r1.store, key)
         IN
         /\ cdnStore' = r2.store
         /\ delTwice' = [op |-> "cdn.invalidate", key |-> key,
                         wasAbsent |-> key \notin cdnStore,
                         err1 |-> r1.err, err2 |-> r2.err,
                         absent |-> key \notin r1.store,
                         unchanged |-> r2.store = r1.store]
    /\ UNCHANGED <<cfg, pc, idx, tasks, tempDisk, unlinkFailed,
                   variants, s3Url, cdnUrl, optFailed, tempFilesCreated,
                   fileStorageSaved, s3Uploaded, cdnPublished, metadataSaved,
                   fileStore, s3Store, metaCache, metaDisk, error, failedStep,
                   failedIdx, rollbackErrors, rbLog, compCalls, thrown, returned,
                   fwdCalls, metadata, cacheRecord, retry, delRun, conc, scale,
                   cancelledAt, afterDelete, breaker, doc>>

InitDelete == Init /\ cfg = {}

NextDelete ==
    \/ Validate
    \/ ExtractDimensions
    \/ \E size \in Range(ResizeSizes) : ResizeSingle(size)
    \/ ResizeAggregate
    \/ Optimize
    \/ SaveToFileStorage
    \/ UploadToS3
    \/ PublishToCDN
    \/ SaveMetadata
    \/ CleanupTempFiles
    \/ RollbackCDN
    \/ RollbackS3
    \/ RollbackFile
    \/ RollbackTemp
    \/ Rethrow
    \/ DeleteImage
    \/ DeleteTwiceS3
    \/ DeleteTwiceFile
    \/ DeleteTwiceCDN

SpecDelete == InitDelete /\ [][NextDelete]_vars

\* C24: on each backend a delete of a key that is absent succeeds and changes
\* nothing: when delete(k) has succeeded, a second delete(k) succeeds too and
\* leaves the state the first one left.
C24_DeleteIdempotent ==
    delTwice.op # ""
    => /\ delTwice.wasAbsent => delTwice.err1 = NoError
       /\ delTwice.err1 = NoError
            => /\ delTwice.absent
               /\ delTwice.err2 = NoError
               /\ delTwice.unchanged

\* An S3 key that existed was deleted, then deleted again while the
\* environment would have made an unlink of an existing file fail.
C24_Witness ==
    /\ delTwice.op = "s3.deleteFile"
    /\ ~delTwice.wasAbsent
    /\ delTwice.err1 = NoError
    /\ delTwice.err2 = NoError
    /\ pc = "done"

DeleteIssued(op, key) == \E i \in DOMAIN delRun.calls : delRun.calls[i] = Call(op, key)

\* C25: deleteImage on an existing record issues the invalidate and the S3
\* delete for every size, the file storage delete and the metadata delete,
\* whatever has failed before, and the error it throws reports every error
\* that was collected.
C25_DeleteImageReportsEveryError ==
    (delRun.called /\ delRun.calls # <<>>)
    => /\ \A i \in DOMAIN SizeOrder :
            /\ DeleteIssued("cdn.invalidate", SizeOrder[i])
            /\ DeleteIssued("s3.deleteFile", SizeOrder[i])
       /\ DeleteIssued("file.deleteFile", "original")
       /\ DeleteIssued("metadata.delete", "")
       /\ delRun.errors # <<>>
            => /\ delRun.thrown # NoError
               /\ delRun.report[1].count = Len(delRun.errors)
               /\ delRun.report[1].messages
                    = [i \in DOMAIN delRun.errors |-> Head(delRun.errors[i]).msg]

----------------------------------------------------------------------------
(* Concurrent processImage runs on the shared backends.                    *)
(*                                                                         *)
(* Each run is the processImage of above taken step by step (a storage     *)
(* step with its loop is one step here, which ends after any number of its *)
(* keys); validation, extractDimensions and optimize touch nothing shared  *)
(* and are left out.  MetadataStorage.save is two steps: cache.set and the *)
(* building of the JSON text happen without an await in between, then the  *)
(* fs.writeFile of persist() is in flight until it lands.                  *)

\* The keys of run r in the order of Object.keys(variants).
KeysOf(r) == [i \in DOMAIN SizeOrder |-> <<r, SizeOrder[i]>>]

\* The temp file paths of every run, whatever the imageId.
TempFilesOfAnyRun(r) == {<<q, s>> : q \in Runs, s \in Range(SizeOrder)}

\* path.join(tempDir, `${imageId}-${size}.jpg`) for the sizes of run r.
TempFilesOf(r) == {<<r, s>> : s \in Range(SizeOrder)}

Prefix(s, n) == SubSeq(s, 1, n)

ConcStep(r, fields) == [conc EXCEPT !.run[r] = fields]

\* Step 3 of run r: resizeToAllSizes returns the variants, or throws having
\* deleted its outputs, or throws at the write of the original.
ConcResize(r) ==
    /\ conc.run[r].pc = "start"
    /\ \E outcome \in {"ok", "cleaned", "left"} :
         conc' = [ConcStep(r, [conc.run[r] EXCEPT
                                 !.pc = IF outcome = "ok" THEN "file" ELSE "catch",
                                 !.tempFilesCreated = (outcome = "ok")])
                    EXCEPT !.temp =
                      CASE outcome = "ok"      -> @ \cup TempFilesOf(r)
                        [] outcome = "left"    -> @ \cup (TempFilesOf(r) \ {<<r, "original">>})
                        [] outcome = "cleaned" -> @]
    /\ UNCHANGED <<cfg, pc, idx, tasks, tempDisk, unlinkFailed,
                   variants, s3Url, cdnUrl, optFailed, tempFilesCreated,
                   fileStorageSaved, s3Uploaded, cdnPublished, metadataSaved,
                   fileStore, s3Store, cdnStore, metaCache, metaDisk, error,
                   failedStep, failedIdx, rollbackErrors, rbLog, compCalls, thrown,
                   returned, fwdCalls, metadata, cacheRecord, retry, delRun,
                   delTwice, scale, cancelledAt, afterDelete, breaker, doc>>

\* Step 5 of run r.
ConcSaveToFileStorage(r) ==
    /\ conc.run[r].pc = "file"
    /\ \E script \in FileScripts({}) :
         LET ok == FileSaveFile({}, script).ok IN
         conc' = [ConcStep(r, [conc.run[r] EXCEPT
                                 !.pc = IF ok THEN "s3" ELSE "catch",
                                 !.fileStorageSaved = ok])
                    EXCEPT !.file = IF ok THEN @ \cup {r} ELSE @]
    /\ UNCHANGED <<cfg, pc, idx, tasks, tempDisk, unlinkFailed,
                   variants, s3Url, cdnUrl, optFailed, tempFilesCreated,
                   fileStorageSaved, s3Uploaded, cdnPublished, metadataSaved,
                   fileStore, s3Store, cdnStore, metaCache, metaDisk, error,
                   failedStep, failedIdx, rollbackErrors, rbLog, compCalls, thrown,
                   returned, fwdCalls, metadata, cacheRecord, retry, delRun,
                   delTwice, scale, cancelledAt, afterDelete, breaker, doc>>

\* Step 6 of run r: the loop uploads the first n keys, all of them when no
\* upload throws.
ConcUploadToS3(r) ==
    /\ conc.run[r].pc = "s3"
    /\ \E n \in 0..Len(SizeOrder) :
         LET all == (n = Len(SizeOrder)) IN
         conc' = [ConcStep(r, [conc.run[r] EXCEPT
                                 !.pc = IF all THEN "cdn" ELSE "catch",
                                 !.s3Uploaded = all])
                    EXCEPT !.s3 = @ \cup Range(Prefix(KeysOf(r), n))]
    /\ UNCHANGED <<cfg, pc, idx, tasks, tempDisk, unlinkFailed,
                   variants, s3Url, cdnUrl, optFailed, tempFilesCreated,
                   fileStorageSaved, s3Uploaded, cdnPublished, metadataSaved,
                   fileStore, s3Store, cdnStore, metaCache, metaDisk, error,
                   failedStep, failedIdx, rollbackErrors, rbLog, compCalls, thrown,
                   returned, fwdCalls, metadata, cacheRecord, retry, delRun,
                   delTwice, scale, cancelledAt, afterDelete, breaker, doc>>

\* Step 7 of run r.
ConcPublishToCDN(r) ==
    /\ conc.run[r].pc = "cdn"
    /\ \E n \in 0..Len(SizeOrder) :
         LET all == (n = Len(SizeOrder)) IN
         conc' = [ConcStep(r, [conc.run[r] EXCEPT
                                 !.pc = IF all THEN "meta" ELSE "catch",
                                 !.cdnPublished = all])
                    EXCEPT !.cdn = @ \cup Range(Prefix(KeysOf(r), n))]
    /\ UNCHANGED <<cfg, pc, idx, tasks, tempDisk, unlinkFailed,
                   variants, s3Url, cdnUrl, optFailed, tempFilesCreated,
                   fileStorageSaved, s3Uploaded, cdnPublished, metadataSaved,
                   fileStore, s3Store, cdnStore, metaCache, metaDisk, error,
                   failedStep, failedIdx, rollbackErrors, rbLog, compCalls, thrown,
                   returned, fwdCalls, metadata, cacheRecord, retry, delRun,
                   delTwice, scale, cancelledAt, afterDelete, breaker, doc>>

\* Step 8 of run r, MetadataStorage.save up to the await of fs.writeFile:
\* cache.set, then persist() builds the text to write from the whole cache.
ConcSaveMetadata(r) ==
    /\ conc.run[r].pc = "meta"
    /\ conc' = [ConcStep(r, [conc.run[r] EXCEPT
                               !.pc = "persist",
                               !.snapshot = conc.cache \cup {r}])
                  EXCEPT !.cache = @ \cup {r}]
    /\ UNCHANGED <<cfg, pc, idx, tasks, tempDisk, unlinkFailed,
                   variants, s3Url, cdnUrl, optFailed, tempFilesCreated,
                   fileStorageSaved, s3Uploaded, cdnPublished, metadataSaved,
                   fileStore, s3Store, cdnStore, metaCache, metaDisk, error,
                   failedStep, failedIdx, rollbackErrors, rbLog, compCalls, thrown,
                   returned, fwdCalls, metadata, cacheRecord, retry, delRun,
                   delTwice, scale, cancelledAt, afterDelete, breaker, doc>>

\* The fs.writeFile of run r's persist() lands (the file has the text that
\* was built) or throws; save returns and metadataSaved is set.
ConcPersistLands(r) ==
    /\ conc.run[r].pc = "persist"
    /\ \E persistFails \in BOOLEAN :
         conc' = [ConcStep(r, [conc.run[r] EXCEPT
                                 !.pc = IF persistFails THEN "catch" ELSE "cleanup",
                                 !.metadataSaved = ~persistFails])
                    EXCEPT !.disk = IF persistFails THEN @ ELSE conc.run[r].snapshot]
    /\ UNCHANGED <<cfg, pc, idx, tasks, tempDisk, unlinkFailed,
                   variants, s3Url, cdnUrl, optFailed, tempFilesCreated,
                   fileStorageSaved, s3Uploaded, cdnPublished, metadataSaved,
                   fileStore, s3Store, cdnStore, metaCache, metaDisk, error,
                   failedStep, failedIdx, rollbackErrors, rbLog, compCalls, thrown,
                   returned, fwdCalls, metadata, cacheRecord, retry, delRun,
                   delTwice, scale, cancelledAt, afterDelete, breaker, doc>>

\* Step 9 of run r and its return.
ConcCleanupTempFiles(r) ==
    /\ conc.run[r].pc = "cleanup"
    /\ \E failing \in {{}, TempFilesOf(r)} :
         conc' = [ConcStep(r, [conc.run[r] EXCEPT !.pc = "done"])
                    EXCEPT !.temp = CleanupFiles(TempFilesOf(r), @, failing).disk]
    /\ UNCHANGED <<cfg, pc, idx, tasks, tempDisk, unlinkFailed,
                   variants, s3Url, cdnUrl, optFailed, tempFilesCreated,
                   fileStorageSaved, s3Uploaded, cdnPublished, metadataSaved,
                   fileStore, s3Store, cdnStore, metaCache, metaDisk, error,
                   failedStep, failedIdx, rollbackErrors, rbLog, compCalls, thrown,
                   returned, fwdCalls, metadata, cacheRecord, retry, delRun,
                   delTwice, scale, cancelledAt, afterDelete, breaker, doc>>

\* The catch block of run r: the four rollback blocks and the rethrow.
ConcRollback(r) ==
    /\ conc.run[r].pc = "catch"
    /\ \E unlinkFails \in BOOLEAN, failing \in {{}, TempFilesOf(r)} :
         LET me == conc.run[r] IN
         conc' = [ConcStep(r, [me EXCEPT !.pc = "failed"]) EXCEPT
                    !.cdn  = IF me.cdnPublished /\ "variants" \in CatchScope
                             THEN InvalidateLoop(KeysOf(r), @).store ELSE @,
                    !.s3   = IF me.s3Uploaded /\ "variants" \in CatchScope
                             THEN S3DeleteLoop(KeysOf(r), @, {}).store ELSE @,
                    !.file = IF me.fileStorageSaved
                                /\ ~FileDeleteFile(r \in @, unlinkFails).store
                             THEN @ \ {r} ELSE @,
                    !.temp = IF me.tempFilesCreated
                             THEN CleanupFiles(TempFilesOf(r), @, failing).disk ELSE @]
    /\ UNCHANGED <<cfg, pc, idx, tasks, tempDisk, unlinkFailed,
                   variants, s3Url, cdnUrl, optFailed, tempFilesCreated,
                   fileStorageSaved, s3Uploaded, cdnPublished, metadataSaved,
                   fileStore, s3Store, cdnStore, metaCache, metaDisk, error,
                   failedStep, failedIdx, rollbackErrors, rbLog, compCalls, thrown,
                   returned, fwdCalls, metadata, cacheRecord, retry, delRun,
                   delTwice, scale, cancelledAt, afterDelete, breaker, doc>>

InitConc == Init /\ cfg = {}

NextConc ==
    \/ \E r \in Runs : ConcResize(r)
    \/ \E r \in Runs : ConcSaveToFileStorage(r)
    \/ \E r \in Runs : ConcUploadToS3(r)
    \/ \E r \in Runs : ConcPublishToCDN(r)
    \/ \E r \in Runs : ConcSaveMetadata(r)
    \/ \E r \in Runs : ConcPersistLands(r)
    \/ \E r \in Runs : ConcCleanupTempFiles(r)
    \/ \E r \in Runs : ConcRollback(r)

SpecConc == InitConc /\ [][NextConc]_vars

\* C26: when every concurrent run has saved its record and every save has
\* returned successfully, every record is in the cache and in the persisted
\* metadata.json.
C26_NoSaveLost ==
    (\A r \in Runs : conc.run[r].metadataSaved)
    => \A r \in Runs : r \in conc.cache /\ r \in conc.disk

\* The keys and ids of run r in the shared backends.
OwnedBy(r, c) ==
    [temp |-> {k \in c.temp : k[1] = r},
     s3   |-> {k \in c.s3 : k[1] = r},
     cdn  |-> {k \in c.cdn : k[1] = r},
     file |-> c.file \cap {r}]

\* C27: a step of one run, its compensation included, leaves every temp
\* file, file storage id, S3 key and CDN key of every other run as it is, and
\* leaves the other run where it is.
C27_RunsTouchOwnKeysOnly ==
    [][\A r \in Runs :
         conc'.run[r] = conc.run[r] => OwnedBy(r, conc') = OwnedBy(r, conc)]_vars

\* One run has returned with all its keys stored while another, which had
\* saved to file storage, has failed and been rolled back.
C27_Witness ==
    \E r, q \in Runs :
      /\ conc.run[r].pc = "done"
      /\ conc.run[q].pc = "failed"
      /\ conc.run[q].fileStorageSaved
      /\ q \notin conc.file
      /\ OwnedBy(r, conc).s3 = Range(KeysOf(r))
      /\ r \in conc.file

\* C28: a resize task writes the temp file of its own size and no other; the
\* run leaves the resize step only when all four tasks have settled; and
\* afterwards no task settles and no temp file of a resized size appears.
C28_ResizeBarrier ==
    [][ /\ \A s \in Range(ResizeSizes) :
             tasks'[s] # tasks[s]
             => /\ (tempDisk' \ tempDisk) \subseteq {s}
                /\ \A q \in Range(ResizeSizes) \ {s} : tasks'[q] = tasks[q]
        /\ (pc = "resize" /\ pc' # "resize")
             => \A s \in Range(ResizeSizes) : tasks[s] # Pending
        /\ pc # "resize"
             => /\ tasks' = tasks
                /\ (tempDisk' \cap Range(ResizeSizes)) \subseteq tempDisk
      ]_vars

\* Two tasks failed, two succeeded, and the cleanup of the two outputs was
\* decided.
C28_Witness ==
    /\ pc = "rb_cdn"
    /\ failedStep = "resize"
    /\ Len(Rejected4) = 2
    /\ Cardinality(Fulfilled4) = 2
    /\ tempDisk = {}

\* The steps a run at pc has ahead of it at most, counted in blocks of
\* StepsPerBlock (more than a loop over the variants takes): the blocks
\* follow the source text, the rollback blocks come after the forward steps.
StepsPerBlock == Len(SizeOrder) + 1

PcRank(p) ==
    CASE p = "validate" -> 15 [] p = "extract"  -> 14 [] p = "resize"  -> 13
      [] p = "optimize" -> 12 [] p = "file"     -> 11 [] p = "s3"      -> 10
      [] p = "cdn"      -> 9  [] p = "meta"     -> 8  [] p = "cleanup" -> 7
      [] p = "rb_cdn"   -> 5  [] p = "rb_s3"    -> 4  [] p = "rb_file" -> 3
      [] p = "rb_temp"  -> 2  [] p = "rethrow"  -> 1
      [] p = "done"     -> 0  [] p = "failed"   -> 0

\* What is left of the step the run is in: the tasks still pending, or the
\* variants its loop has still to visit.
LeftInStep ==
    CASE pc = "resize" -> Cardinality({s \in Range(ResizeSizes) : tasks[s] = Pending})
      [] pc \in {"optimize", "s3", "cdn"} -> Len(variants) - idx
      [] OTHER -> 0

Rank == PcRank(pc) * StepsPerBlock + LeftInStep

\* C29: every step of a processImage run brings it nearer to its end (a
\* bounded measure decreases), so the run returns or throws after finitely
\* many steps; every backend write makes at most maxRetries + 1 attempts;
\* and each rollback block is entered at most once.
C29_RunTerminates ==
    [][ /\ Rank' < Rank
        /\ Rank' >= 0
        /\ LeftInStep < StepsPerBlock
        /\ pc = "s3" => \A script \in S3Scripts(cfg) :
             S3UploadFile(cfg, script).attempts <= S3MaxRetries + 1
        /\ pc = "cdn" => \A script \in CDNScripts(cfg) :
             CDNPublishFile(cfg, script).attempts <= CDNMaxRetries + 1
        /\ pc = "file" => \A script \in FileScripts(cfg) :
             FileSaveFile(cfg, script).attempts <= FileMaxRetries + 1
        /\ \A i, j \in DOMAIN rbLog' : i # j => rbLog'[i] # rbLog'[j]
      ]_vars

\* A run that threw after its metadata save failed: the longest way to an
\* end, through every forward step and every rollback block.
C29_Witness ==
    /\ pc = "failed"
    /\ failedStep = "meta"
    /\ rbLog = <<"cdn", "s3", "file", "temp">>
    /\ Rank = 0

----------------------------------------------------------------------------
(* One call of calculateScaledDimensions, taken by itself *)

\* Widths and heights of source images: validateImageDimensions accepts 100
\* to 8000; the values lie at and around the limits and the target boxes.
SourceLengths ==
    {100, 101, 149, 150, 151, 480, 1000, 1024, 1080, 1920, 2048, 2919, 4096, 8000}

\* resizeSingle calls calculateScaledDimensions(originalDimensions,
\* SIZE_CONFIGS[size]).
CallCalculateScaledDimensions ==
    /\ scale = NoScale
    /\ \E w, h \in SourceLengths, size \in Range(SizeOrder) :
         LET original == [width |-> w, height |-> h]
             target == SIZE_CONFIGS[size]
         IN scale' = [original |-> <<original>>, target |-> <<target>>,
                      out |-> <<CalculateScaledDimensions(original, target)>>]
    /\ UNCHANGED <<cfg, pc, idx, tasks, tempDisk, unlinkFailed,
                   variants, s3Url, cdnUrl, optFailed, tempFilesCreated,
                   fileStorageSaved, s3Uploaded, cdnPublished, metadataSaved,
                   fileStore, s3Store, cdnStore, metaCache, metaDisk, error,
                   failedStep, failedIdx, rollbackErrors, rbLog, compCalls, thrown,
                   returned, fwdCalls, metadata, cacheRecord, retry, delRun,
                   delTwice, conc, cancelledAt, afterDelete, breaker, doc>>

InitScale == Init /\ cfg = {}

NextScale == CallCalculateScaledDimensions

SpecScale == InitScale /\ [][NextScale]_vars

Abs(n) == IF n < 0 THEN -n ELSE n

\* C30: the dimensions returned exceed neither the source nor the target box
\* in width or height, they keep the aspect ratio of the source up to the
\* rounding of one axis, and a box that holds the whole source gives back
\* the source dimensions.
C30_ScaledDimensionsFit ==
    scale.out # <<>>
    => LET o == scale.original[1]
           t == scale.target[1]
           d == scale.out[1]
       IN
       /\ d.width <= o.width /\ d.width <= t.width
       /\ d.height <= o.height /\ d.height <= t.height
       /\ \/ 2 * Abs(d.height * o.width - d.width * o.height) <= o.width
          \/ 2 * Abs(d.width * o.height - d.height * o.width) <= o.height
       /\ (t.width >= o.width /\ t.height >= o.height) => d = o

\* A source smaller than the box it is fitted to.
C30_Witness ==
    /\ scale.out # <<>>
    /\ scale.original[1] = [width |-> 1920, height |-> 1080]
    /\ scale.target[1] = SIZE_CONFIGS["large"]
    /\ scale.out[1] = [width |-> 1920, height |-> 1080]

----------------------------------------------------------------------------
(* Validation failure, cancellation, leftovers *)

\* C31: when validateUploadInput throws, processImage rejects with the
\* ValidationError before the try statement: no forward call, no rollback
\* block and no compensation call has been made, and every store is as it
\* was at the start of the call.
C31_ValidationFailureTouchesNothing ==
    failedStep = "validate"
    => /\ pc = "failed"
       /\ thrown # NoError /\ thrown[1].name = "ValidationError"
       /\ ~returned
       /\ error = NoError
       /\ fwdCalls = <<>> /\ compCalls = <<>>
       /\ rbLog = <<>> /\ rollbackErrors = <<>>
       /\ tempDisk = {} /\ ~fileStore /\ s3Store = {} /\ cdnStore = {}
       /\ ~metaCache /\ ~metaDisk /\ cacheRecord = <<>>

\* An input that validateUploadInput rejects, no failure being injected.
C31_Witness ==
    /\ failedStep = "validate"
    /\ thrown # NoError
    /\ "shouldFailValidation" \notin cfg

\* The caller of processImage gives the request up (the client closes the
\* connection of POST /images) while a storage or metadata call is awaited.
\* processImage takes an input and a config and no signal or deadline, and
\* the route handler only awaits it: the run does not observe the event.
CancelRequest ==
    /\ pc \in {"file", "s3", "cdn", "meta"}
    /\ cancelledAt = ""
    /\ cancelledAt' = pc
    /\ UNCHANGED <<cfg, pc, idx, tasks, tempDisk, unlinkFailed,
                   variants, s3Url, cdnUrl, optFailed, tempFilesCreated,
                   fileStorageSaved, s3Uploaded, cdnPublished, metadataSaved,
                   fileStore, s3Store, cdnStore, metaCache, metaDisk, error,
                   failedStep, failedIdx, rollbackErrors, rbLog, compCalls, thrown,
                   returned, fwdCalls, metadata, cacheRecord, retry, delRun,
                   delTwice, conc, scale, afterDelete, breaker, doc>>

InitCancel == Init /\ Cardinality(cfg) <= 1

NextCancel ==
    \/ Validate
    \/ ExtractDimensions
    \/ \E size \in Range(ResizeSizes) : ResizeSingle(size)
    \/ ResizeAggregate
    \/ Optimize
    \/ SaveToFileStorage
    \/ UploadToS3
    \/ PublishToCDN
    \/ SaveMetadata
    \/ CleanupTempFiles
    \/ RollbackCDN
    \/ RollbackS3
    \/ RollbackFile
    \/ RollbackTemp
    \/ Rethrow
    \/ CancelRequest

SpecCancel == InitCancel /\ [][NextCancel]_vars

\* C32: a run cancelled during a storage or metadata call ends as a run in
\* which that call failed fatally: it does not return the record, the step
\* it was cancelled at is the step that failed, and the rollback block of
\* every step that had committed has been entered.
C32_CancellationDrivesCompensation ==
    (cancelledAt # "" /\ pc \in {"done", "failed"})
    => /\ ~returned
       /\ thrown # NoError
       /\ failedStep = cancelledAt
       /\ \A step \in {"cdn", "s3", "file", "temp"} :
            Committed(step) => step \in Range(rbLog)

----------------------------------------------------------------------------
(* Requests that follow deleteImage(imageId) *)

\* handleError of routes.ts: the HTTP status of the response for an error.
HandleError(e) ==
    CASE Head(e).name = "ValidationError" -> 400
      [] Head(e).name = "NetworkError"    -> 503
      [] OTHER                            -> 500

\* GET /images/:id after the deleteImage: getImage(imageId) and the status
\* of the response (res.json answers 200).
GetImageAfterDelete ==
    /\ delRun.called /\ delRun.calls # <<>>
    /\ ~afterDelete.get.called
    /\ LET e == IF MetadataGet(metaCache) THEN NoError
                ELSE Wrap(Err("DatabaseError", "Failed to get image"),
                          <<Err("DatabaseError", "Image not found")>>)
       IN afterDelete' = [afterDelete EXCEPT !.get =
            [called |-> TRUE, calls |-> <<Call("metadata.get", "")>>, thrown |-> e,
             status |-> IF e = NoError THEN 200 ELSE HandleError(e)]]
    /\ UNCHANGED <<cfg, pc, idx, tasks, tempDisk, unlinkFailed,
                   variants, s3Url, cdnUrl, optFailed, tempFilesCreated,
                   fileStorageSaved, s3Uploaded, cdnPublished, metadataSaved,
                   fileStore, s3Store, cdnStore, metaCache, metaDisk, error,
                   failedStep, failedIdx, rollbackErrors, rbLog, compCalls, thrown,
                   returned, fwdCalls, metadata, cacheRecord, retry, delRun,
                   delTwice, conc, scale, cancelledAt, breaker, doc>>

\* DELETE /images/:id a second time: deleteImage(imageId) again and the
\* status of the response (204 when it resolves).
DeleteImageAgain ==
    /\ delRun.called /\ delRun.calls # <<>>
    /\ ~afterDelete.second.called
    /\ IF ~MetadataGet(metaCache)
       THEN LET e == Wrap(Err("DatabaseError", "Failed to get image"),
                          <<Err("DatabaseError", "Image not found")>>)
            IN
            /\ afterDelete' = [afterDelete EXCEPT !.second =
                  [called |-> TRUE, calls |-> <<>>, thrown |-> e,
                   status |-> HandleError(e)]]
            /\ UNCHANGED <<cdnStore, s3Store, fileStore, metaCache, metaDisk, cacheRecord>>
       ELSE \E failing \in SUBSET s3Store, unlinkFails, persistFails \in BOOLEAN :
              LET sizes  == CacheGet(metaCache, cacheRecord)[1].sizes
                  cdn    == InvalidateLoop(sizes, cdnStore)
                  s3     == S3DeleteLoop(sizes, s3Store, failing)
                  file   == FileDeleteFile(fileStore, unlinkFails)
                  meta   == MetadataDelete(metaCache, metaDisk, persistFails)
                  errors == AppendError(AppendError(AppendError(AppendError(<<>>,
                              cdn.err), s3.err), file.err), meta.err)
                  e      == IF errors = <<>> THEN NoError
                            ELSE <<Err("Error", "Failed to fully delete image")>>
              IN
              /\ cdnStore' = cdn.store
              /\ s3Store' = s3.store
              /\ fileStore' = file.store
              /\ metaCache' = meta.cache
              /\ metaDisk' = meta.disk
              /\ cacheRecord' = IF meta.cache THEN cacheRecord ELSE <<>>
              /\ afterDelete' = [afterDelete EXCEPT !.second =
                    [called |-> TRUE,
                     calls  |-> cdn.calls \o s3.calls
                                \o <<Call("file.deleteFile", "original"),
                                     Call("metadata.delete", "")>>,
                     thrown |-> e,
                     status |-> IF e = NoError THEN 204 ELSE HandleError(e)]]
    /\ UNCHANGED <<cfg, pc, idx, tasks, tempDisk, unlinkFailed,
                   variants, s3Url, cdnUrl, optFailed, tempFilesCreated,
                   fileStorageSaved, s3Uploaded, cdnPublished, metadataSaved, error,
                   failedStep, failedIdx, rollbackErrors, rbLog, compCalls, thrown,
                   returned, fwdCalls, metadata, retry, delRun, delTwice, conc,
                   scale, cancelledAt, breaker, doc>>

InitAfterDelete == Init /\ cfg = {}

NextAfterDelete ==
    \/ Validate
    \/ ExtractDimensions
    \/ \E size \in Range(ResizeSizes) : ResizeSingle(size)
    \/ ResizeAggregate
    \/ Optimize
    \/ SaveToFileStorage
    \/ UploadToS3
    \/ PublishToCDN
    \/ SaveMetadata
    \/ CleanupTempFiles
    \/ RollbackCDN
    \/ RollbackS3
    \/ RollbackFile
    \/ RollbackTemp
    \/ Rethrow
    \/ DeleteImage
    \/ GetImageAfterDelete
    \/ DeleteImageAgain

SpecAfterDelete == InitAfterDelete /\ [][NextAfterDelete]_vars

\* C34: once deleteImage(id) of an existing record is over, whether it
\* resolved or threw, getImage(id) throws a DatabaseError, which the route
\* answers with status 500, and a second deleteImage(id) throws at its
\* getImage with no delete or invalidate call made.
C34_GoneAfterDelete ==
    /\ afterDelete.get.called
         => /\ afterDelete.get.thrown # NoError
            /\ Head(afterDelete.get.thrown).name = "DatabaseError"
            /\ afterDelete.get.status = 500
    /\ afterDelete.second.called
         => /\ afterDelete.second.thrown # NoError
            /\ Head(afterDelete.second.thrown).name = "DatabaseError"
            /\ Head(afterDelete.second.thrown).msg = "Failed to get image"
            /\ afterDelete.second.calls = <<>>
            /\ afterDelete.second.status = 500

\* A deleteImage whose metadata delete failed at persist(), followed by a
\* getImage and a second deleteImage.
C34_Witness ==
    /\ delRun.thrown # NoError
    /\ metaDisk
    /\ afterDelete.get.called
    /\ afterDelete.second.called

----------------------------------------------------------------------------
(* Cleanup failures *)

\* C35: a failing temp-file cleanup does not change what processImage ends
\* with: a run that saved the metadata returns the record, a failed run
\* throws the error that triggered the failure and not the error of a
\* cleanup, and either way every temp file of the run has had its deletion
\* attempted, so that only files whose deletion failed are left.
C35_CleanupFailureKeepsOutcome ==
    /\ pc = "done"
         => /\ returned /\ metadataSaved
            /\ tempDisk \subseteq unlinkFailed
    /\ (pc = "failed" /\ failedStep # "validate")
         => /\ Head(thrown).name # "ResourceError"
            /\ (failedStep = "resize" /\ Rejected4 # <<>>)
                 => Head(thrown).name = "ProcessingError"
            /\ tempDisk \subseteq unlinkFailed

----------------------------------------------------------------------------
(* CircuitBreaker (examples: retry and circuit breaking) *)

\* The check at the head of execute with >= in place of <.
AdmitOnlyAfterTimeout(b) ==
    IF b.state = "OPEN"
    THEN IF b.now - b.lastFailureTime <= Timeout
         THEN [admitted |-> FALSE, state |-> b.state]
         ELSE [admitted |-> TRUE, state |-> "HALF_OPEN"]
    ELSE [admitted |-> TRUE, state |-> b.state]

\* The head of execute: if (this.state === 'OPEN') { if (Date.now() -
\* this.lastFailureTime < this.timeout) throw ...; else this.state =
\* 'HALF_OPEN' }.
Admit(b) ==
    IF b.state = "OPEN"
    THEN IF b.now - b.lastFailureTime < Timeout
         THEN [admitted |-> FALSE, state |-> b.state]
         ELSE [admitted |-> TRUE, state |-> "HALF_OPEN"]
    ELSE [admitted |-> TRUE, state |-> b.state]

\* onSuccess that closes the breaker and keeps the failure count.
OnSuccessKeepsFailures(b) == [b EXCEPT !.state = "CLOSED"]

\* onSuccess()
OnSuccess(b) == [b EXCEPT !.failures = 0, !.state = "CLOSED"]

\* onFailure()
OnFailure(b) ==
    [b EXCEPT !.failures = @ + 1,
              !.lastFailureTime = b.now,
              !.state = IF b.failures + 1 >= Threshold THEN "OPEN" ELSE @]

\* Caller c calls execute(operation): up to the await of operation(), or to
\* the throw of 'Circuit breaker is OPEN'.
Execute(c) ==
    /\ breaker.call[c].pc = "idle"
    /\ breaker.calls < MaxCalls
    /\ LET a == Admit(breaker) IN
       breaker' =
         IF a.admitted
         THEN [breaker EXCEPT !.state = a.state,
                              !.call[c] = [pc |-> "running",
                                           trial |-> a.state = "HALF_OPEN",
                                           last |-> ""],
                              !.calls = @ + 1,
                              !.invoked = @ + 1]
         ELSE [breaker EXCEPT !.call[c] = [pc |-> "idle", trial |-> FALSE,
                                           last |-> "rejected"],
                              !.calls = @ + 1]
    /\ UNCHANGED <<cfg, pc, idx, tasks, tempDisk, unlinkFailed,
                   variants, s3Url, cdnUrl, optFailed, tempFilesCreated,
                   fileStorageSaved, s3Uploaded, cdnPublished, metadataSaved,
                   fileStore, s3Store, cdnStore, metaCache, metaDisk, error,
                   failedStep, failedIdx, rollbackErrors, rbLog, compCalls, thrown,
                   returned, fwdCalls, metadata, cacheRecord, retry, delRun,
                   delTwice, conc, scale, cancelledAt, afterDelete, doc>>

\* The operation of caller c settles: onSuccess and return, or onFailure and
\* rethrow.
Settle(c) ==
    /\ breaker.call[c].pc = "running"
    /\ \E ok \in BOOLEAN :
         LET b == IF ok THEN OnSuccess(breaker) ELSE OnFailure(breaker) IN
         breaker' = [b EXCEPT !.call[c] = [pc |-> "idle", trial |-> FALSE,
                                          last |-> IF ok THEN "ok" ELSE "failed"]]
    /\ UNCHANGED <<cfg, pc, idx, tasks, tempDisk, unlinkFailed,
                   variants, s3Url, cdnUrl, optFailed, tempFilesCreated,
                   fileStorageSaved, s3Uploaded, cdnPublished, metadataSaved,
                   fileStore, s3Store, cdnStore, metaCache, metaDisk, error,
                   failedStep, failedIdx, rollbackErrors, rbLog, compCalls, thrown,
                   returned, fwdCalls, metadata, cacheRecord, retry, delRun,
                   delTwice, conc, scale, cancelledAt, afterDelete, doc>>

\* Time passes: by 1 ms, by one ms less than the timeout, or by the timeout.
Tick ==
    /\ breaker.ticks < MaxTicks
    /\ \E d \in {1, Timeout - 1, Timeout} :
         breaker' = [breaker EXCEPT !.now = @ + d, !.ticks = @ + 1]
    /\ UNCHANGED <<cfg, pc, idx, tasks, tempDisk, unlinkFailed,
                   variants, s3Url, cdnUrl, optFailed, tempFilesCreated,
                   fileStorageSaved, s3Uploaded, cdnPublished, metadataSaved,
                   fileStore, s3Store, cdnStore, metaCache, metaDisk, error,
                   failedStep, failedIdx, rollbackErrors, rbLog, compCalls, thrown,
                   returned, fwdCalls, metadata, cacheRecord, retry, delRun,
                   delTwice, conc, scale, cancelledAt, afterDelete, doc>>

InitBreaker == Init /\ cfg = {}

NextBreaker ==
    \/ \E c \in Callers : Execute(c)
    \/ \E c \in Callers : Settle(c)
    \/ Tick

SpecBreaker == InitBreaker /\ [][NextBreaker]_vars

\* Caller c makes an execute call in this step.
Calls(c) == breaker'.calls = breaker.calls + 1 /\ breaker'.call[c] # breaker.call[c]

\* C36: an execute call made while the breaker is OPEN and less than the
\* timeout after the last recorded failure is rejected, the operation is not
\* invoked, and failures, lastFailureTime and state stay as they are; one
\* made at or after the timeout is admitted and the breaker is HALF_OPEN.
C36_OpenRejectsUntilTimeout ==
    [][\A c \in Callers :
         (Calls(c) /\ breaker.state = "OPEN")
         => IF breaker.now - breaker.lastFailureTime < Timeout
            THEN /\ breaker'.call[c].last = "rejected"
                 /\ breaker'.call[c].pc = "idle"
                 /\ breaker'.invoked = breaker.invoked
                 /\ breaker'.failures = breaker.failures
                 /\ breaker'.lastFailureTime = breaker.lastFailureTime
                 /\ breaker'.state = "OPEN"
            ELSE /\ breaker'.call[c].pc = "running"
                 /\ breaker'.invoked = breaker.invoked + 1
                 /\ breaker'.state = "HALF_OPEN"
      ]_vars

\* A call rejected one ms before the timeout has passed, and a call admitted
\* exactly at the timeout.
C36_Witness ==
    /\ breaker.state = "HALF_OPEN"
    /\ breaker.now - breaker.lastFailureTime = Timeout
    /\ \E c, d \in Callers :
         /\ breaker.call[c].pc = "running" /\ breaker.call[c].trial
         /\ breaker.call[d].last = "rejected"

\* The operation of caller c settles in this step, with outcome last.
Settles(c, last) ==
    /\ breaker.call[c].pc = "running"
    /\ breaker'.call[c].pc = "idle"
    /\ breaker'.call[c].last = last

\* C37: before and after every step, whatever the interleaving of the
\* callers, state is CLOSED exactly when failures < threshold; the breaker
\* becomes OPEN only by a failure that brings failures to the threshold or
\* above, and a successful operation sets failures to 0 and state to CLOSED.
C37_ClosedIffBelowThreshold ==
    [][ /\ (breaker.state = "CLOSED") <=> (breaker.failures < Threshold)
        /\ (breaker'.state = "CLOSED") <=> (breaker'.failures < Threshold)
        /\ (breaker.state # "OPEN" /\ breaker'.state = "OPEN")
             => /\ \E c \in Callers : Settles(c, "failed")
                /\ breaker'.failures = breaker.failures + 1
                /\ breaker'.failures >= Threshold
        /\ \A c \in Callers :
             Settles(c, "ok") => breaker'.failures = 0 /\ breaker'.state = "CLOSED"
      ]_vars

\* The breaker has been OPEN (a call was rejected) and a successful call has
\* closed it again while another call is in flight.
C37_Witness ==
    /\ breaker.state = "CLOSED" /\ breaker.failures = 0
    /\ breaker.invoked < breaker.calls
    /\ \E c, d \in Callers :
         /\ breaker.call[c].last = "ok"
         /\ breaker.call[d].pc = "running"

\* C38: a call admitted with the breaker HALF_OPEN decides the state when
\* its operation settles: on success the breaker is CLOSED with failures =
\* 0, on failure it is OPEN with lastFailureTime set to the time of the
\* failure; it is never HALF_OPEN after such a call has settled.
C38_TrialDecidesNextState ==
    [][\A c \in Callers :
         breaker.call[c].trial
         => /\ Settles(c, "ok")
                 => breaker'.state = "CLOSED" /\ breaker'.failures = 0
            /\ Settles(c, "failed")
                 => /\ breaker'.state = "OPEN"
                    /\ breaker'.lastFailureTime = breaker.now
            /\ breaker.call[c].pc = "running" /\ breaker'.call[c].pc = "idle"
                 => breaker'.state # "HALF_OPEN"
      ]_vars

----------------------------------------------------------------------------
(* DocumentService.updateDocument *)

\* FileStorage.saveFile(id, content) of the document service: the retry loop
\* of FileAttempt, with no injected failure.
DocSaveFile(script) == FileAttempt(script, 0, <<>>)

\* metadataStorage.save(updatedMetadata): cache.set comes before persist().
DocMetadataSave(d, persistFails) ==
    IF persistFails
    THEN [cacheMeta |-> "m1", diskMeta |-> d.diskMeta,
          err |-> Wrap(Err("DatabaseError", "Failed to save metadata"),
                       Wrap(Err("DatabaseError", "Failed to persist metadata to disk"),
                            <<Err("Error", "fs")>>))]
    ELSE [cacheMeta |-> "m1", diskMeta |-> "m1", err |-> NoError]

\* A catch block that restores the content whenever the metadata was not
\* updated.
RollbackUnlessMetadataUpdated(contentUpdated, metadataUpdated) == ~metadataUpdated

\* if (contentUpdated && !metadataUpdated) of the catch block.
RollbackNeeded(contentUpdated, metadataUpdated) == contentUpdated /\ ~metadataUpdated

\* The end of the catch block: a StorageError or DatabaseError is rethrown as
\* it is, anything else is replaced by a new Error.
DocRethrown(e) ==
    IF Head(e).name \in {"StorageError", "DatabaseError"} THEN e
    ELSE <<Err("Error", "Failed to update document")>>

\* One saveFile call of updateDocument.
DocWrite(content, r) == [content |-> content, attempts |-> r.attempts, ok |-> r.ok]

\* A step of the try block throws e at step: the catch block up to its
\* first await (the rollback write) or, without one, to its throw.
DocCatch(d, step, e) ==
    IF RollbackNeeded(d.contentUpdated, d.metadataUpdated)
    THEN [d EXCEPT !.error = e, !.failedAt = step, !.pc = "rollback"]
    ELSE [d EXCEPT !.error = e, !.failedAt = step, !.pc = "failed",
                   !.thrown = DocRethrown(e)]

\* updateDocument(id, input) up to the try block: the two validations and
\* getDocument(id), each of which may throw.
DocGetDocument ==
    /\ doc.pc = "idle"
    /\ \E content \in {"", "v0", "v1"}, title \in {"", "t1"},
          outcome \in {"ok", "invalid", "notfound", "unreadable"} :
         doc' = IF outcome = "ok"
                THEN [doc EXCEPT !.input = [content |-> content, title |-> title],
                                 !.oldContent = doc.file,
                                 !.pc = "content"]
                ELSE [doc EXCEPT !.input = [content |-> content, title |-> title],
                                 !.failedAt = "get",
                                 !.pc = "failed",
                                 !.thrown =
                                   CASE outcome = "invalid" ->
                                          <<Err("ValidationError", "validation")>>
                                     [] outcome = "notfound" ->
                                          <<Err("NotFoundError", "not found")>>
                                     [] OTHER ->
                                          <<Err("StorageError", "Failed to fetch content for document")>>]
    /\ UNCHANGED <<cfg, pc, idx, tasks, tempDisk, unlinkFailed,
                   variants, s3Url, cdnUrl, optFailed, tempFilesCreated,
                   fileStorageSaved, s3Uploaded, cdnPublished, metadataSaved,
                   fileStore, s3Store, cdnStore, metaCache, metaDisk, error,
                   failedStep, failedIdx, rollbackErrors, rbLog, compCalls, thrown,
                   returned, fwdCalls, metadata, cacheRecord, retry, delRun,
                   delTwice, conc, scale, cancelledAt, afterDelete, breaker>>

\* if (validatedInput.content) { await saveFile(id, content); contentUpdated
\* = true }
DocSaveContent ==
    /\ doc.pc = "content"
    /\ IF doc.input.content = ""
       THEN doc' = [doc EXCEPT !.pc = "meta"]
       ELSE \E script \in FileScripts({}) :
              LET r == DocSaveFile(script)
                  d == [doc EXCEPT !.writes = Append(@, DocWrite(doc.input.content, r))]
              IN
              doc' = IF r.ok
                     THEN [d EXCEPT !.file = doc.input.content,
                                    !.contentUpdated = TRUE,
                                    !.pc = "meta"]
                     ELSE DocCatch(d, "content", r.err)
    /\ UNCHANGED <<cfg, pc, idx, tasks, tempDisk, unlinkFailed,
                   variants, s3Url, cdnUrl, optFailed, tempFilesCreated,
                   fileStorageSaved, s3Uploaded, cdnPublished, metadataSaved,
                   fileStore, s3Store, cdnStore, metaCache, metaDisk, error,
                   failedStep, failedIdx, rollbackErrors, rbLog, compCalls, thrown,
                   returned, fwdCalls, metadata, cacheRecord, retry, delRun,
                   delTwice, conc, scale, cancelledAt, afterDelete, breaker>>

\* await metadataStorage.save(updatedMetadata); metadataUpdated = true; return
DocSaveMetadata ==
    /\ doc.pc = "meta"
    /\ \E persistFails \in BOOLEAN :
         LET r == DocMetadataSave(doc, persistFails)
             d == [doc EXCEPT !.cacheMeta = r.cacheMeta, !.diskMeta = r.diskMeta]
         IN
         doc' = IF r.err = NoError
                THEN [d EXCEPT !.metadataUpdated = TRUE, !.returned = TRUE,
                               !.pc = "done"]
                ELSE DocCatch(d, "meta", r.err)
    /\ UNCHANGED <<cfg, pc, idx, tasks, tempDisk, unlinkFailed,
                   variants, s3Url, cdnUrl, optFailed, tempFilesCreated,
                   fileStorageSaved, s3Uploaded, cdnPublished, metadataSaved,
                   fileStore, s3Store, cdnStore, metaCache, metaDisk, error,
                   failedStep, failedIdx, rollbackErrors, rbLog, compCalls, thrown,
                   returned, fwdCalls, metadata, cacheRecord, retry, delRun,
                   delTwice, conc, scale, cancelledAt, afterDelete, breaker>>

\* The rollback of the catch block: saveFile(id, oldContent), whose error is
\* only logged, then the throw.
DocRollback ==
    /\ doc.pc = "rollback"
    /\ \E script \in FileScripts({}) :
         LET r == DocSaveFile(script) IN
         doc' = [doc EXCEPT !.writes = Append(@, DocWrite(doc.oldContent, r)),
                            !.file = IF r.ok THEN doc.oldContent ELSE @,
                            !.rollbackOk = r.ok,
                            !.thrown = DocRethrown(doc.error),
                            !.pc = "failed"]
    /\ UNCHANGED <<cfg, pc, idx, tasks, tempDisk, unlinkFailed,
                   variants, s3Url, cdnUrl, optFailed, tempFilesCreated,
                   fileStorageSaved, s3Uploaded, cdnPublished, metadataSaved,
                   fileStore, s3Store, cdnStore, metaCache, metaDisk, error,
                   failedStep, failedIdx, rollbackErrors, rbLog, compCalls, thrown,
                   returned, fwdCalls, metadata, cacheRecord, retry, delRun,
                   delTwice, conc, scale, cancelledAt, afterDelete, breaker>>

InitDoc == Init /\ cfg = {}

NextDoc ==
    \/ DocGetDocument
    \/ DocSaveContent
    \/ DocSaveMetadata
    \/ DocRollback

SpecDoc == InitDoc /\ [][NextDoc]_vars

\* C39: when updateDocument has failed at the metadata save, it throws the
\* error of that save; if new content had been written, exactly one more
\* saveFile was made, with the previous content, and once that write has
\* succeeded the stored content is the content before the update; if no new
\* content had been written, no saveFile was made at all.
C39_ContentRestoredAfterMetadataFailure ==
    (doc.pc = "failed" /\ doc.failedAt = "meta")
    => /\ doc.thrown = doc.error
       /\ Head(doc.thrown).name = "DatabaseError"
       /\ doc.input.content # ""
            => /\ Len(doc.writes) = 2
               /\ doc.writes[1].content = doc.input.content /\ doc.writes[1].ok
               /\ doc.writes[2].content = doc.before
               /\ doc.writes[2].ok => doc.file = doc.before
       /\ doc.input.content = ""
            => doc.writes = <<>> /\ doc.file = doc.before

\* New content was written, the metadata save failed and the rollback write
\* succeeded.
C39_Witness ==
    /\ doc.pc = "failed" /\ doc.failedAt = "meta"
    /\ doc.input.content = "v1"
    /\ Len(doc.writes) = 2 /\ doc.writes[2].ok
    /\ doc.file = "v0"

====
